---- MODULE Spec2Model ----
(***************************************************************************)
(* PDFExcelExtract: the table-detection pipeline of the PDF processor.     *)
(*                                                                         *)
(* Three parts are modelled from the TypeScript sources:                   *)
(*   - the text-pattern detector (detectTables and its helpers),           *)
(*   - the layout detector (detectTablesByLayout),                         *)
(*   - the job pipeline: MemStorage, PDFProcessor.processJob and the       *)
(*     HTTP routes that start, reset and delete jobs.                      *)
(*                                                                         *)
(* A JavaScript string is a sequence of one-character strings; a text is   *)
(* the sequence of its '\n'-separated lines, so the empty string is the    *)
(* text << <<>> >>.  Coordinates are integers in thousandths of a PDF unit *)
(* so that the rounding to two decimals done by the layout detector is     *)
(* observable.                                                             *)
(***************************************************************************)
EXTENDS Integers, Sequences, FiniteSets, TLC

(***************************************************************************)
(* Strings                                                                 *)
(***************************************************************************)

TAB == "\t"

Digits == {"0", "1", "2", "3", "4", "5", "6", "7", "8", "9"}

UpperCase == {"A", "B", "C", "D", "E", "F", "G", "H", "I", "J", "K", "L", "M",
              "N", "O", "P", "Q", "R", "S", "T", "U", "V", "W", "X", "Y", "Z"}

LowerCase == {"a", "b", "c", "d", "e", "f", "g", "h", "i", "j", "k", "l", "m",
              "n", "o", "p", "q", "r", "s", "t", "u", "v", "w", "x", "y", "z"}

\* \w of a JavaScript regular expression
WordChars == UpperCase \cup LowerCase \cup Digits \cup {"_"}

\* \s of a JavaScript regular expression, as far as the modelled texts go
WhiteSpace == {" ", TAB}

\* [\$£€¥] of detectHeaders
CurrencySigns == {"$", "£", "€", "¥"}

Max(a, b) == IF a >= b THEN a ELSE b

Min(a, b) == IF a <= b THEN a ELSE b

\* Math.round of the non-negative quotient num / den (halves round up)
RoundDiv(num, den) == (2 * num + den) \div (2 * den)

\* the number of positions of s holding a character of set S
CountIn(s, S) == Cardinality({i \in 1..Len(s) : s[i] \in S})

\* regex test /[S]/ : some character of s is in S
HasAny(s, S) == \E i \in 1..Len(s) : s[i] \in S

\* String.prototype.trim
RECURSIVE TrimLeft(_)
TrimLeft(s) ==
  IF s # <<>> /\ Head(s) \in WhiteSpace THEN TrimLeft(Tail(s)) ELSE s

RECURSIVE TrimRight(_)
TrimRight(s) ==
  IF s # <<>> /\ s[Len(s)] \in WhiteSpace
    THEN TrimRight(SubSeq(s, 1, Len(s) - 1))
    ELSE s

Trim(s) == TrimRight(TrimLeft(s))

\* Array.prototype.filter
RECURSIVE SelectNonEmpty(_)
SelectNonEmpty(seq) ==
  IF seq = <<>> THEN <<>>
  ELSE IF Head(seq) # <<>> THEN <<Head(seq)>> \o SelectNonEmpty(Tail(seq))
  ELSE SelectNonEmpty(Tail(seq))

\* Array.prototype.map(cell => cell.trim())
TrimAll(seq) == [i \in 1..Len(seq) |-> Trim(seq[i])]

\* Array.prototype.flat over a sequence of sequences
RECURSIVE Flat(_)
Flat(seqs) == IF seqs = <<>> THEN <<>> ELSE Head(seqs) \o Flat(Tail(seqs))

\* String.prototype.split(c) for a one-character separator c
RECURSIVE SplitChar(_, _)
SplitChar(s, c) ==
  IF \A i \in 1..Len(s) : s[i] # c THEN <<s>>
  ELSE LET i == CHOOSE k \in 1..Len(s) :
                  s[k] = c /\ \A m \in 1..(k - 1) : s[m] # c
       IN  <<SubSeq(s, 1, i - 1)>> \o SplitChar(SubSeq(s, i + 1, Len(s)), c)

\* the end of the maximal run of whitespace that starts at position i
RECURSIVE RunEnd(_, _)
RunEnd(s, i) ==
  IF i < Len(s) /\ s[i + 1] \in WhiteSpace THEN RunEnd(s, i + 1) ELSE i

\* a run of at least n whitespace characters starts at position i
RunAt(s, i, n) ==
  /\ i + n - 1 <= Len(s)
  /\ \A k \in i..(i + n - 1) : s[k] \in WhiteSpace

\* String.prototype.split(/\s{2,}/)
RECURSIVE SplitSpaces(_)
SplitSpaces(s) ==
  IF \A i \in 1..Len(s) : ~RunAt(s, i, 2) THEN <<s>>
  ELSE LET i == CHOOSE k \in 1..Len(s) :
                  RunAt(s, k, 2) /\ \A m \in 1..(k - 1) : ~RunAt(s, m, 2)
           j == RunEnd(s, i)
       IN  <<SubSeq(s, 1, i - 1)>> \o SplitSpaces(SubSeq(s, j + 1, Len(s)))

\* Number.prototype.toString for 0 <= n < 100
DigitOf(d) ==
  CASE d = 0 -> "0" [] d = 1 -> "1" [] d = 2 -> "2" [] d = 3 -> "3"
    [] d = 4 -> "4" [] d = 5 -> "5" [] d = 6 -> "6" [] d = 7 -> "7"
    [] d = 8 -> "8" [] d = 9 -> "9"

ToStr(n) ==
  IF n < 10 THEN <<DigitOf(n)>> ELSE <<DigitOf(n \div 10), DigitOf(n % 10)>>

\* the template literal `Column ${n}`
ColumnName(n) == <<"C", "o", "l", "u", "m", "n", " ">> \o ToStr(n)

\* text.split('\n').map(l => l.trim()).filter(l => l.length > 0)
NonBlankLines(text) == SelectNonEmpty(TrimAll(text))

\* string concatenation of two texts: the last line of a continues in b
Concat(a, b) ==
  SubSeq(a, 1, Len(a) - 1) \o <<a[Len(a)] \o Head(b)>> \o Tail(b)

\* text.trim().length > 0
IsBlankText(text) == \A i \in 1..Len(text) : Trim(text[i]) = <<>>

(***************************************************************************)
(* Text-pattern detector                                                   *)
(***************************************************************************)

\* /\|.*\|.*\|/ and /\t.*\t.*\t/ : the character c occurs at least n times
AtLeast(line, c, n) == CountIn(line, {c}) >= n

\* /\s{n,}.*\s{n,}/ : two disjoint runs of at least n whitespace characters
TwoRuns(line, n) ==
  \E i, j \in 1..Len(line) : RunAt(line, i, n) /\ j >= i + n /\ RunAt(line, j, n)

\* /[\$\d,]+.*[\$\d,]+/ : two characters among digits, '$' and ','
TwoNumberGroups(line) == CountIn(line, Digits \cup {"$", ","}) >= 2

\* /.*\d+.*%/ : a digit somewhere before a '%'
PercentPattern(line) ==
  \E i, j \in 1..Len(line) : i < j /\ line[i] \in Digits /\ line[j] = "%"

\* /.*\$.*\d/ : a '$' somewhere before a digit
CurrencyPattern(line) ==
  \E i, j \in 1..Len(line) : i < j /\ line[i] = "$" /\ line[j] \in Digits

\* /^\w+\s+\w+.*\w+$/ : a word, whitespace, then a word character, and the
\* line ends with another word character
WordsPattern(line) ==
  \E k, m \in 1..Len(line) :
    /\ \A i \in 1..k : line[i] \in WordChars
    /\ \A i \in (k + 1)..(k + m) : i <= Len(line) /\ line[i] \in WhiteSpace
    /\ k + m + 2 <= Len(line)
    /\ line[k + m + 1] \in WordChars
    /\ line[Len(line)] \in WordChars

Sensitivities == {"low", "medium", "high"}

isTableLine(line, sensitivity) ==
  CASE sensitivity = "low" ->
         \/ AtLeast(line, "|", 3)
         \/ AtLeast(line, TAB, 3)
    [] sensitivity = "medium" ->
         \/ AtLeast(line, "|", 2)
         \/ AtLeast(line, TAB, 2)
         \/ TwoRuns(line, 3)
         \/ TwoNumberGroups(line)
    [] sensitivity = "high" ->
         \/ AtLeast(line, "|", 1)
         \/ AtLeast(line, TAB, 1)
         \/ TwoRuns(line, 2)
         \/ PercentPattern(line)
         \/ CurrencyPattern(line)
         \/ WordsPattern(line)

\* the score of one separator: the matches summed over the lines; the
\* space-run regex has no g flag, so a line counts at most once for it
RECURSIVE SeparatorScore(_, _)
SeparatorScore(lines, sep) ==
  IF lines = <<>> THEN 0
  ELSE LET line == Head(lines)
           matches == IF sep = " "
                        THEN IF \E i \in 1..Len(line) : RunAt(line, i, 2)
                               THEN 1 ELSE 0
                        ELSE CountIn(line, {sep})
       IN  matches + SeparatorScore(Tail(lines), sep)

detectSeparator(lines) ==
  LET pipe == SeparatorScore(lines, "|")
      tab == SeparatorScore(lines, TAB)
      spaces == SeparatorScore(lines, " ")
      best1 == IF pipe > 0 THEN <<"|", pipe>> ELSE <<"|", 0>>
      best2 == IF tab > best1[2] THEN <<TAB, tab>> ELSE best1
      best3 == IF spaces > best2[2] THEN <<" ", spaces>> ELSE best2
  IN  best3[1]

splitTableLine(line, separator) ==
  IF separator = "|" THEN SelectNonEmpty(TrimAll(SplitChar(line, "|")))
  ELSE IF separator = TAB THEN TrimAll(SplitChar(line, TAB))
  ELSE SelectNonEmpty(TrimAll(SplitSpaces(line)))

\* the per-cell indicator of detectHeaders
HeaderLike(cell) ==
  /\ ~HasAny(cell, Digits)
  /\ ~HasAny(cell, CurrencySigns)
  /\ ~HasAny(cell, {"%"})
  /\ Len(cell) < 20
  /\ cell # <<>> /\ cell[1] \in UpperCase

\* indicators.filter(Boolean).length >= indicators.length * 0.6
detectHeaders(row) ==
  10 * Cardinality({i \in 1..Len(row) : HeaderLike(row[i])}) >= 6 * Len(row)

\* header.length > 2 && header.length < 30 && !/^\d+$/.test(header)
MeaningfulHeader(header) ==
  /\ Len(header) > 2
  /\ Len(header) < 30
  /\ ~(header # <<>> /\ \A i \in 1..Len(header) : header[i] \in Digits)

\* The three PDFProcessor sources: "pdfjs" reads positioned text with pdfjs
\* and has the layout detector and the fallback table, "pdfparse" reads text
\* with pdf-parse, "ocr" (server/pdf-processor.ts) reads text by OCR only.
Variants == {"pdfjs", "pdfparse", "ocr"}

\* the score as summed, without Math.max(floor, Math.min(100, ...))
calculateTableConfidenceUnclamped(headers, data, variant) ==
  LET meaningful == Cardinality({i \in 1..Len(headers) : MeaningfulHeader(headers[i])})
      hasNumericData ==
        \E i \in 1..Len(data) : \E j \in 1..Len(data[i]) :
          HasAny(data[i][j], Digits \cup {"$", "%"})
      cells == Flat(data)
      emptyCells == Cardinality({i \in 1..Len(cells) : Trim(cells[i]) = <<>>})
  IN  50 + (IF Len(headers) >= 2 THEN 10 ELSE 0)
         + (IF Len(data) >= 2 THEN 10 ELSE 0)
         + (IF \A i \in 1..Len(data) : Len(data[i]) = Len(headers) THEN 15 ELSE 0)
         + (IF variant = "pdfparse" THEN 0 ELSE RoundDiv(10 * meaningful, Len(headers)))
         + (IF hasNumericData THEN 10 ELSE 0)
         - RoundDiv(30 * emptyCells, Len(data) * Len(headers))

\* the score with a lower clamp of 70: Math.max(70, Math.min(100, ...))
calculateTableConfidenceFloor70(headers, data, variant) ==
  Max(70, Min(100, calculateTableConfidenceUnclamped(headers, data, variant)))

calculateTableConfidence(headers, data, variant) ==
  LET structure == (IF Len(headers) >= 2 THEN 10 ELSE 0)
                     + (IF Len(data) >= 2 THEN 10 ELSE 0)
      consistentLength == \A i \in 1..Len(data) : Len(data[i]) = Len(headers)
      meaningful == Cardinality({i \in 1..Len(headers) : MeaningfulHeader(headers[i])})
      headerBoost == IF variant = "pdfparse" THEN 0
                     ELSE RoundDiv(10 * meaningful, Len(headers))
      floor == IF variant = "pdfparse" THEN 0 ELSE 30
      hasNumericData ==
        \E i \in 1..Len(data) : \E j \in 1..Len(data[i]) :
          HasAny(data[i][j], Digits \cup {"$", "%"})
      cells == Flat(data)
      emptyCells == Cardinality({i \in 1..Len(cells) : Trim(cells[i]) = <<>>})
      totalCells == Len(data) * Len(headers)
      penalty == RoundDiv(30 * emptyCells, totalCells)
      confidence == 50 + structure
                       + (IF consistentLength THEN 15 ELSE 0)
                       + headerBoost
                       + (IF hasNumericData THEN 10 ELSE 0)
                       - penalty
  IN  Max(floor, Min(100, confidence))

\* rows.filter(row => row.length >= 2) without the test
ValidRowsKeepingAll(rows) == rows

\* rows.filter(row => row.length >= 2)
RECURSIVE ValidRows(_)
ValidRows(rows) ==
  IF rows = <<>> THEN <<>>
  ELSE IF Len(Head(rows)) >= 2 THEN <<Head(rows)>> \o ValidRows(Tail(rows))
  ELSE ValidRows(Tail(rows))

\* Math.max(...rows.map(row => row.length))
RECURSIVE MaxLen(_)
MaxLen(rows) ==
  IF Len(rows) = 1 THEN Len(rows[1]) ELSE Max(Len(Head(rows)), MaxLen(Tail(rows)))

\* a row left as it was split: neither padded nor cut
NormalizeNothing(row, n) == row

\* pad the row with '' up to n cells, then slice(0, n)
Normalize(row, n) ==
  [j \in 1..n |-> IF j <= Len(row) THEN row[j] ELSE <<>>]

NoTable == [tableIndex |-> -1]

\* the second half of parseTable: headers, data rows and confidence of the
\* rows that have at least two cells
TableOfRows(validRows, tableIndex, confidenceThreshold, variant) ==
  LET hasHeaders == detectHeaders(validRows[1])
      headers == IF hasHeaders THEN validRows[1]
                 ELSE [i \in 1..MaxLen(validRows) |-> ColumnName(i)]
      raw == IF hasHeaders THEN Tail(validRows) ELSE validRows
      data == [i \in 1..Len(raw) |-> Normalize(raw[i], Len(headers))]
      confidence == calculateTableConfidence(headers, data, variant)
  IN  IF confidence < confidenceThreshold THEN NoTable
      ELSE [tableIndex |-> tableIndex,
            headers |-> headers,
            data |-> data,
            confidence |-> confidence,
            boundingBox |-> [x |-> 0, y |-> tableIndex * 100,
                             width |-> 100, height |-> Len(data) * 20]]

\* lines.map(line => this.splitTableLine(line, separator))
SplitLines(lines, separator) ==
  [i \in 1..Len(lines) |-> splitTableLine(lines[i], separator)]

\* the test of parseTable on the rows that are left
AtLeastTwoRows(validRows, tableIndex, confidenceThreshold, variant) ==
  IF Len(validRows) < 2 THEN NoTable
  ELSE TableOfRows(validRows, tableIndex, confidenceThreshold, variant)

\* parseTable; NoTable stands for the null result
parseTable(lines, tableIndex, confidenceThreshold, variant) ==
  IF Len(lines) < 2 THEN NoTable
  ELSE AtLeastTwoRows(ValidRows(SplitLines(lines, detectSeparator(lines))),
                      tableIndex, confidenceThreshold, variant)

\* what detectTables does with a closed block: found is [tables,
\* tableIndex], the tables pushed so far and the counter of the loop; the
\* table is pushed, and the counter incremented, if there is a table and it
\* reaches the threshold
PushTable(found, extractedTable, confidenceThreshold) ==
  IF extractedTable # NoTable /\ extractedTable.confidence >= confidenceThreshold
    THEN [tables |-> Append(found.tables, extractedTable),
          tableIndex |-> found.tableIndex + 1]
    ELSE found

\* a closed block kept whatever it scores
CloseBlockAnyScore(found, currentTable, confidenceThreshold, variant) ==
  PushTable(found, parseTable(currentTable, found.tableIndex, 0, variant), 0)

CloseBlock(found, currentTable, confidenceThreshold, variant) ==
  PushTable(found,
            parseTable(currentTable, found.tableIndex, confidenceThreshold, variant),
            confidenceThreshold)

\* a loop that closes a block without emptying currentTable: the lines of
\* a block are carried into the next one
RECURSIVE ScanLinesKeepingBlock(_, _, _, _, _, _, _, _)
ScanLinesKeepingBlock(lines, i, found, currentTable, inTable, confidenceThreshold, sensitivity, variant) ==
  IF i > Len(lines)
    THEN IF inTable /\ Len(currentTable) > 1
           THEN CloseBlock(found, currentTable, confidenceThreshold, variant).tables
           ELSE found.tables
    ELSE IF isTableLine(lines[i], sensitivity)
      THEN ScanLinesKeepingBlock(lines, i + 1, found, Append(currentTable, lines[i]),
                                 TRUE, confidenceThreshold, sensitivity, variant)
    ELSE IF inTable /\ Len(currentTable) > 1
      THEN ScanLinesKeepingBlock(lines, i + 1,
                                 CloseBlock(found, currentTable, confidenceThreshold,
                                            variant),
                                 currentTable, FALSE, confidenceThreshold, sensitivity,
                                 variant)
    ELSE ScanLinesKeepingBlock(lines, i + 1, found, <<>>, FALSE, confidenceThreshold,
                               sensitivity, variant)

\* the loop of detectTables from line i on, then the block at the end of
\* the text
RECURSIVE ScanLines(_, _, _, _, _, _, _, _)
ScanLines(lines, i, found, currentTable, inTable, confidenceThreshold, sensitivity, variant) ==
  IF i > Len(lines)
    THEN IF inTable /\ Len(currentTable) > 1
           THEN CloseBlock(found, currentTable, confidenceThreshold, variant).tables
           ELSE found.tables
    ELSE
      LET line == lines[i]
          hasTablePattern == isTableLine(line, sensitivity)
      IN  IF hasTablePattern /\ ~inTable
            THEN ScanLines(lines, i + 1, found, <<line>>, TRUE,
                           confidenceThreshold, sensitivity, variant)
          ELSE IF hasTablePattern /\ inTable
            THEN ScanLines(lines, i + 1, found, Append(currentTable, line), TRUE,
                           confidenceThreshold, sensitivity, variant)
          ELSE IF inTable /\ Len(currentTable) > 1
            THEN ScanLines(lines, i + 1,
                           CloseBlock(found, currentTable, confidenceThreshold, variant),
                           <<>>, FALSE, confidenceThreshold, sensitivity, variant)
          ELSE ScanLines(lines, i + 1, found, <<>>, FALSE,
                         confidenceThreshold, sensitivity, variant)

detectTables(text, confidenceThreshold, sensitivity, variant) ==
  ScanLines(NonBlankLines(text), 1, [tables |-> <<>>, tableIndex |-> 0], <<>>, FALSE,
            confidenceThreshold, sensitivity, variant)

(***************************************************************************)
(* Layout detector                                                         *)
(*                                                                         *)
(* A text item of a page is [str, x, y]: its string and the position       *)
(* pdfjs reports for it (transform[4], transform[5]), in thousandths.  A   *)
(* page is [fails, items]: fails says that getPage or getTextContent       *)
(* throws for it.  The boundingBox of a layout table is in thousandths too. *)
(***************************************************************************)

\* thousandths per PDF unit
Unit == 10 * 100

\* Math.round(v * 100) / 100 for v >= 0
Round2(v) == ((v + 5) \div 10) * 10

yTolerance == 3

gapThreshold == 20

MaxLayoutPages == 10

MinColumns == 2

MaxColumns == 12

Abs(v) == IF v < 0 THEN -v ELSE v

\* items.filter(i => i && typeof i.str === 'string' && i.str.trim().length > 0)
RECURSIVE NonBlankItems(_)
NonBlankItems(items) ==
  IF items = <<>> THEN <<>>
  ELSE IF Trim(Head(items).str) # <<>>
    THEN <<Head(items)>> \o NonBlankItems(Tail(items))
  ELSE NonBlankItems(Tail(items))

\* the clustering loop: the item joins the first row within yTolerance of
\* its rounded y, or opens a new row
RECURSIVE ClusterRows(_, _)
ClusterRows(items, rows) ==
  IF items = <<>> THEN rows
  ELSE
    LET it == Head(items)
        y == Round2(it.y)
        near == {r \in 1..Len(rows) : Abs(rows[r].y - y) <= yTolerance * Unit}
    IN  IF near = {}
          THEN ClusterRows(Tail(items), Append(rows, [y |-> y, items |-> <<it>>]))
          ELSE LET r == CHOOSE k \in near : \A m \in near : k <= m
               IN  ClusterRows(Tail(items),
                     [rows EXCEPT ![r].items = Append(@, it)])

\* rows.sort((a, b) => b.y - a.y), a stable sort
RECURSIVE SortRows(_)
SortRows(rows) ==
  IF rows = <<>> THEN <<>>
  ELSE LET sorted == SortRows(SubSeq(rows, 1, Len(rows) - 1))
           last == rows[Len(rows)]
           k == Cardinality({i \in 1..Len(sorted) : sorted[i].y >= last.y})
       IN  SubSeq(sorted, 1, k) \o <<last>> \o SubSeq(sorted, k + 1, Len(sorted))

\* r.items.sort((a, b) => a.x - b.x), a stable sort
RECURSIVE SortItems(_)
SortItems(items) ==
  IF items = <<>> THEN <<>>
  ELSE LET sorted == SortItems(SubSeq(items, 1, Len(items) - 1))
           last == items[Len(items)]
           k == Cardinality({i \in 1..Len(sorted) : sorted[i].x <= last.x})
       IN  SubSeq(sorted, 1, k) \o <<last>> \o SubSeq(sorted, k + 1, Len(sorted))

\* xPositions.sort((a, b) => a - b)
RECURSIVE SortNumbers(_)
SortNumbers(xs) ==
  IF xs = <<>> THEN <<>>
  ELSE LET sorted == SortNumbers(SubSeq(xs, 1, Len(xs) - 1))
           last == xs[Len(xs)]
           k == Cardinality({i \in 1..Len(sorted) : sorted[i] <= last})
       IN  SubSeq(sorted, 1, k) \o <<last>> \o SubSeq(sorted, k + 1, Len(sorted))

\* the rows of a page, top to bottom, each sorted left to right
PageRows(items) ==
  LET rows == SortRows(ClusterRows(items, <<>>))
  IN  [r \in 1..Len(rows) |-> [y |-> rows[r].y, items |-> SortItems(rows[r].items)]]

\* the rounded x of every item of every row, sorted
XPositions(rows) ==
  SortNumbers(Flat([r \in 1..Len(rows) |->
    [i \in 1..Len(rows[r].items) |-> Round2(rows[r].items[i].x)]]))

\* a cut is every position more than gapThreshold right of its predecessor
RECURSIVE Cuts(_, _)
Cuts(xPositions, i) ==
  IF i > Len(xPositions) THEN <<>>
  ELSE IF xPositions[i] - xPositions[i - 1] > gapThreshold * Unit
    THEN <<xPositions[i]>> \o Cuts(xPositions, i + 1)
  ELSE Cuts(xPositions, i + 1)

\* the column bands [minX, maxX) made from minX, the cuts and maxX + 1
Columns(xPositions) ==
  LET minX == IF xPositions = <<>> THEN 0 ELSE xPositions[1]
      maxX == IF xPositions = <<>> THEN 0 ELSE xPositions[Len(xPositions)]
      bins == <<minX>> \o Cuts(xPositions, 2) \o <<maxX + 1 * Unit>>
  IN  [i \in 1..(Len(bins) - 1) |-> [minX |-> bins[i], maxX |-> bins[i + 1]]]

\* Math.max(0, columns.findIndex(c => x >= c.minX && x < c.maxX)), 1-based
ColumnIndex(columns, x) ==
  LET hits == {c \in 1..Len(columns) : x >= columns[c].minX /\ x < columns[c].maxX}
  IN  IF hits = {} THEN 1 ELSE CHOOSE c \in hits : \A d \in hits : c <= d

\* the cells of one grid row: the trimmed strings of the row's items, each
\* appended to the cell of its column after a space
RECURSIVE FillRow(_, _, _)
FillRow(cells, items, columns) ==
  IF items = <<>> THEN cells
  ELSE LET it == Head(items)
           c == ColumnIndex(columns, it.x)
           cell == (IF cells[c] # <<>> THEN cells[c] \o <<" ">> ELSE <<>>) \o Trim(it.str)
       IN  FillRow([cells EXCEPT ![c] = cell], Tail(items), columns)

Grid(rows, columns) ==
  [r \in 1..Len(rows) |->
    FillRow([c \in 1..Len(columns) |-> <<>>], rows[r].items, columns)]

\* grid.filter(row => row.some(cell => cell.trim().length > 0))
RECURSIVE NonEmptyRows(_)
NonEmptyRows(grid) ==
  IF grid = <<>> THEN <<>>
  ELSE IF \E c \in 1..Len(Head(grid)) : Trim(Head(grid)[c]) # <<>>
    THEN <<Head(grid)>> \o NonEmptyRows(Tail(grid))
  ELSE NonEmptyRows(Tail(grid))

\* r.filter((_, c) => nonEmptyCols[c])
RECURSIVE KeepColumns(_, _, _)
KeepColumns(row, c, keep) ==
  IF c > Len(row) THEN <<>>
  ELSE IF c \in keep THEN <<row[c]>> \o KeepColumns(row, c + 1, keep)
  ELSE KeepColumns(row, c + 1, keep)

Cleaned(grid) ==
  LET nonEmptyRows == NonEmptyRows(grid)
      colCount == IF nonEmptyRows = <<>> THEN 0 ELSE MaxLen(nonEmptyRows)
      nonEmptyCols ==
        {c \in 1..colCount :
           \E r \in 1..Len(nonEmptyRows) :
             c <= Len(nonEmptyRows[r]) /\ Trim(nonEmptyRows[r][c]) # <<>>}
  IN  [r \in 1..Len(nonEmptyRows) |-> KeepColumns(nonEmptyRows[r], 1, nonEmptyCols)]

\* headerRow.filter(cell => !/[\d$%]/.test(cell)).length
\*   >= Math.ceil(headerRow.length * 0.6)
LayoutIsHeader(headerRow) ==
  Cardinality({c \in 1..Len(headerRow) :
                 ~HasAny(headerRow[c], Digits \cup {"$", "%"})})
    >= (6 * Len(headerRow) + 9) \div 10

\* the confidence without the bonus for consistent columns
LayoutConfidenceNoBonus(headers, data) ==
  LET cells == Flat(data)
      nonEmpty == Cardinality({i \in 1..Len(cells) : Trim(cells[i]) # <<>>})
  IN  60 + (IF nonEmpty > Len(data) THEN 10 ELSE 0)

LayoutConfidence(headers, data) ==
  LET consistentCols == \A r \in 1..Len(data) : Len(data[r]) = Len(headers)
      cells == Flat(data)
      nonEmpty == Cardinality({i \in 1..Len(cells) : Trim(cells[i]) # <<>>})
  IN  60 + (IF consistentCols THEN 20 ELSE 0)
         + (IF nonEmpty > Len(data) THEN 10 ELSE 0)

\* the table made of the cleaned grid of a page
TableOfGrid(cleaned, rows, columns, tableCounter) ==
  IF cleaned = <<>> THEN NoTable
  ELSE
    LET headerRow == cleaned[1]
        isHeader == LayoutIsHeader(headerRow)
        headers ==
          IF isHeader
            THEN [c \in 1..Len(headerRow) |->
                    IF headerRow[c] # <<>> THEN headerRow[c]
                    ELSE <<"C", "o", "l", "u", "m", "n">>]
            ELSE [c \in 1..Len(headerRow) |-> ColumnName(c)]
        body == IF isHeader THEN Tail(cleaned) ELSE cleaned
        data == [r \in 1..Len(body) |-> TrimAll(body[r])]
    IN  [tableIndex |-> tableCounter,
         headers |-> headers,
         data |-> data,
         confidence |-> LayoutConfidence(headers, data),
         boundingBox |->
           [x |-> columns[1].minX,
            y |-> rows[1].y,
            width |-> columns[Len(columns)].maxX - columns[1].minX,
            height |-> Len(rows) * 12 * Unit]]

\* a page loop that goes on however many columns there are above the minimum
TableOfColumnsAnyWidth(rows, columns, tableCounter) ==
  IF Len(columns) < MinColumns THEN NoTable
  ELSE TableOfGrid(Cleaned(Grid(rows, columns)), rows, columns, tableCounter)

\* the test on the number of columns, then the grid
TableOfColumns(rows, columns, tableCounter) ==
  IF Len(columns) < MinColumns \/ Len(columns) > MaxColumns THEN NoTable
  ELSE TableOfGrid(Cleaned(Grid(rows, columns)), rows, columns, tableCounter)

\* the rows of the page, then its columns
TableOfItems(rows, tableCounter) ==
  TableOfColumns(rows, Columns(XPositions(rows)), tableCounter)

\* the body of the page loop: the table of one page, or NoTable when the
\* page is skipped
PageTable(page, tableCounter) ==
  LET items == NonBlankItems(page.items)
  IN  IF items = <<>> THEN NoTable
      ELSE TableOfItems(PageRows(items), tableCounter)

\* a page loop that numbers the tables of every page from 0
RECURSIVE LayoutLoopPerPage(_, _, _, _)
LayoutLoopPerPage(pages, p, allTables, tableCounter) ==
  IF p > Min(Len(pages), MaxLayoutPages) THEN allTables
  ELSE IF pages[p].fails THEN <<>>
  ELSE LET table == PageTable(pages[p], 0)
       IN  LayoutLoopPerPage(pages, p + 1,
             IF table = NoTable THEN allTables ELSE Append(allTables, table), 0)

\* the page loop over the first MaxLayoutPages pages; tableCounter is
\* incremented when a table is pushed; a page that throws ends the loop in
\* the catch block of detectTablesByLayout, which returns []
RECURSIVE LayoutLoop(_, _, _, _)
LayoutLoop(pages, p, allTables, tableCounter) ==
  IF p > Min(Len(pages), MaxLayoutPages) THEN allTables
  ELSE IF pages[p].fails THEN <<>>
  ELSE LET table == PageTable(pages[p], tableCounter)
       IN  IF table = NoTable
             THEN LayoutLoop(pages, p + 1, allTables, tableCounter)
             ELSE LayoutLoop(pages, p + 1, Append(allTables, table), tableCounter + 1)

\* detectTablesByLayout of a document: corrupt says that getDocument rejects
detectTablesByLayout(doc) ==
  IF doc.corrupt THEN <<>> ELSE LayoutLoop(doc.pages, 1, <<>>, 0)

(***************************************************************************)
(* The single-column fallback of processJob                                *)
(***************************************************************************)

\* a fallback table with a row for every line, blank or not, untrimmed
FallbackTableOfAllLines(combinedText) ==
  [tableIndex |-> 0,
   headers |-> <<<<"T", "e", "x", "t">>>>,
   data |-> [i \in 1..Len(combinedText) |-> <<combinedText[i]>>],
   confidence |-> 80,
   boundingBox |-> [x |-> 0, y |-> 0, width |-> 100,
                    height |-> Max(20, Len(combinedText) * 20)]]

FallbackTable(combinedText) ==
  LET lines == NonBlankLines(combinedText)
  IN  [tableIndex |-> 0,
       headers |-> <<<<"T", "e", "x", "t">>>>,
       data |-> [i \in 1..Len(lines) |-> <<lines[i]>>],
       confidence |-> 80,
       boundingBox |-> [x |-> 0, y |-> 0, width |-> 100,
                        height |-> Max(20, Len(lines) * 20)]]

(***************************************************************************)
(* Inputs of the detectors                                                 *)
(***************************************************************************)

\* the lines a text is made of:
\*   'Ab|Cd|Ef|Gh'          pipes at every sensitivity, header-like cells
\*   'x|1|2'                two pipes: table-like from medium on
\*   '|7|'                  two pipes around a single cell
\*   '|Ab|Cd|'              three pipes around two header-like cells
\*   'x|1'                  one pipe: table-like at high only
\*   'a\t\tb'               two tabs around an empty cell
\*   '1  2'                 two numbers: table-like at medium only
\*   'Name   Qty   Sum'     two runs of three spaces
\*   'word'                 no pattern
\*   ' '                    a blank line
LinePool ==
  {<<"A","b","|","C","d","|","E","f","|","G","h">>,
   <<"x","|","1","|","2">>,
   <<"|","7","|">>,
   <<"|","A","b","|","C","d","|">>,
   <<"x","|","1">>,
   <<"a","\t","\t","b">>,
   <<"1"," "," ","2">>,
   <<"N","a","m","e"," "," "," ","Q","t","y"," "," "," ","S","u","m">>,
   <<"w","o","r","d">>,
   <<" ">>}

MaxTextLines == 3

\* every text of at most MaxTextLines lines of the pool; a string always
\* has at least one line
RECURSIVE SeqsUpTo(_, _)
SeqsUpTo(S, n) ==
  IF n = 0 THEN {<<>>}
  ELSE LET shorter == SeqsUpTo(S, n - 1)
       IN  shorter \cup {Append(q, e) : q \in {r \in shorter : Len(r) = n - 1}, e \in S}

Texts == SeqsUpTo(LinePool, MaxTextLines) \ {<<>>}

EmptyText == <<<<>>>>

\* two blocks around a line of prose, the first scoring less than the second
TwoBlocks ==
  <<<<"A","b","|","C","d","|","E","f","|","G","h">>, <<"x","|","1","|","2">>,
    <<"w","o","r","d">>,
    <<"x","|","1","|","2">>, <<"x","|","1","|","2">>>>

\* a header line of n cells 'Ab' between pipes
RECURSIVE WideLine(_)
WideLine(n) == IF n = 1 THEN <<"A", "b">> ELSE <<"A", "b", "|">> \o WideLine(n - 1)

WideColumns == 20

\* a header of WideColumns cells over a row of two: most cells are empty
SparseBlock == <<WideLine(WideColumns), <<"|","A","b","|","C","d","|">>>>

Thresholds == {0, 80, 95}

\* the text items a small page is made of: a word, a number or a blank
\* string, at x positions 15 and 25 units apart, at y positions 2 and 20
\* units apart
ItemStrings == {<<"A", "b">>, <<"7">>, <<" ">>}

ItemXs == {0, 15 * Unit, 40 * Unit}

ItemYs == {700 * Unit, 698 * Unit, 680 * Unit}

Items == [str : ItemStrings, x : ItemXs, y : ItemYs]

MaxItems == 2

Page(items) == [fails |-> FALSE, items |-> items]

SmallPages == {Page(items) : items \in SeqsUpTo(Items, MaxItems)}

Item(str, x, y) == [str |-> str, x |-> x, y |-> y]

\* a header row and a data row in two columns
TablePage ==
  Page(<<Item(<<"Q", "t", "y">>, 60 * Unit, 700 * Unit),
         Item(<<"N", "a", "m", "e">>, 10 * Unit, 700 * Unit),
         Item(<<"N", "u", "t">>, 10 * Unit, 680 * Unit),
         Item(<<"5">>, 60 * Unit, 681 * Unit)>>)

\* two numeric rows in two columns, the second row missing a cell
NumberPage ==
  Page(<<Item(<<"1">>, 10 * Unit, 500 * Unit),
         Item(<<"2", "%">>, 40 * Unit, 500 * Unit),
         Item(<<"3">>, 10 * Unit, 480 * Unit)>>)

\* a single column of text
ProsePage ==
  Page(<<Item(<<"h", "e", "l", "l", "o">>, 10 * Unit, 700 * Unit),
         Item(<<"w", "o", "r", "l", "d">>, 12 * Unit, 680 * Unit)>>)

\* an item whose x rounds up to the cut position 40.00
RoundingPage ==
  Page(<<Item(<<"a">>, 10 * Unit, 700 * Unit),
         Item(<<"b">>, 40 * Unit, 700 * Unit),
         Item(<<"c">>, 40 * Unit - 4, 680 * Unit)>>)

BlankPage == Page(<<Item(<<" ">>, 10 * Unit, 700 * Unit)>>)

FailingPage == [fails |-> TRUE, items |-> <<>>]

\* three items, each 3 below the one before
ChainPage ==
  Page(<<Item(<<"a">>, 10 * Unit, 706 * Unit),
         Item(<<"b">>, 40 * Unit, 703 * Unit),
         Item(<<"c">>, 70 * Unit, 700 * Unit)>>)

\* the leftmost item is at 9.996, which rounds to 10.00
RoundUpPage ==
  Page(<<Item(<<"a">>, 10 * Unit - 4, 700 * Unit),
         Item(<<"b">>, 40 * Unit, 700 * Unit)>>)

\* one row of n items 30 apart: n column bands
BandsPage(n) ==
  Page([i \in 1..n |-> Item(<<"c">>, (10 + 30 * i) * Unit, 700 * Unit)])

CraftedPages ==
  {TablePage, NumberPage, ProsePage, RoundingPage, BlankPage, FailingPage}

MaxPages == 2

\* a document: what pdfjs reads (corrupt: getDocument rejects; pages), the
\* text pdf-parse returns for it (plain), and the text OCR recognises on
\* each page image (scan)
Document(pages) ==
  [corrupt |-> FALSE, pages |-> pages, plain |-> EmptyText, scan |-> <<>>]

\* eleven pages, the table on the last one
LongDocument ==
  Document([p \in 1..(MaxLayoutPages + 1) |->
              IF p <= MaxLayoutPages THEN ProsePage ELSE TablePage])

LayoutDocuments ==
  {Document(<<page>>) : page \in SmallPages}
    \cup {Document(pages) : pages \in SeqsUpTo(CraftedPages, MaxPages)}
    \cup {LongDocument, Document(<<ChainPage>>), Document(<<RoundUpPage>>),
          Document(<<BandsPage(MaxColumns)>>),
          Document(<<BandsPage(MaxColumns + 1)>>),
          [corrupt |-> TRUE, pages |-> <<>>, plain |-> EmptyText, scan |-> <<>>]}

(***************************************************************************)
(* Text sources of processJob                                              *)
(***************************************************************************)

\* generateSimulatedOCRText: the template literal, line by line
SimulatedOCRText ==
  <<<<>>,
    <<" ", " ", " ", " ", " ", " ", "M", "o", "n", "t", "h", "l", "y", " ", "P", "e",
      "r", "f", "o", "r", "m", "a", "n", "c", "e", " ", "R", "e", "p", "o", "r", "t",
      " ", "-", " ", "A", "u", "g", "u", "s", "t", " ", "2", "0", "2", "5">>,
    <<>>,
    <<" ", " ", " ", " ", " ", " ", "R", "e", "v", "e", "n", "u", "e", " ", "S", "u",
      "m", "m", "a", "r", "y">>,
    <<" ", " ", " ", " ", " ", " ", "P", "r", "o", "d", "u", "c", "t", " ", "C", "a",
      "t", "e", "g", "o", "r", "y", " ", "|", " ", "Q", "1", " ", "R", "e", "v", "e",
      "n", "u", "e", " ", "|", " ", "Q", "2", " ", "R", "e", "v", "e", "n", "u", "e",
      " ", "|", " ", "Q", "3", " ", "R", "e", "v", "e", "n", "u", "e", " ", "|", " ",
      "G", "r", "o", "w", "t", "h", " ", "%">>,
    <<" ", " ", " ", " ", " ", " ", "S", "o", "f", "t", "w", "a", "r", "e", " ", "L",
      "i", "c", "e", "n", "s", "e", "s", " ", "|", " ", "$", "2", ",", "4", "5", "0",
      ",", "0", "0", "0", " ", "|", " ", "$", "2", ",", "6", "8", "0", ",", "0", "0",
      "0", " ", "|", " ", "$", "2", ",", "8", "9", "0", ",", "0", "0", "0", " ", "|",
      " ", "1", "8", ".", "0", "%">>,
    <<" ", " ", " ", " ", " ", " ", "C", "l", "o", "u", "d", " ", "S", "e", "r", "v",
      "i", "c", "e", "s", " ", "|", " ", "$", "1", ",", "8", "9", "0", ",", "0", "0",
      "0", " ", "|", " ", "$", "2", ",", "1", "5", "0", ",", "0", "0", "0", " ", "|",
      " ", "$", "2", ",", "3", "8", "0", ",", "0", "0", "0", " ", "|", " ", "2", "5",
      ".", "9", "%">>,
    <<" ", " ", " ", " ", " ", " ", "S", "u", "p", "p", "o", "r", "t", " ", "S", "e",
      "r", "v", "i", "c", "e", "s", " ", "|", " ", "$", "7", "8", "0", ",", "0", "0",
      "0", " ", "|", " ", "$", "8", "5", "0", ",", "0", "0", "0", " ", "|", " ", "$",
      "9", "2", "0", ",", "0", "0", "0", " ", "|", " ", "1", "7", ".", "9", "%">>,
    <<" ", " ", " ", " ", " ", " ", "T", "r", "a", "i", "n", "i", "n", "g", " ", "P",
      "r", "o", "g", "r", "a", "m", "s", " ", "|", " ", "$", "3", "4", "0", ",", "0",
      "0", "0", " ", "|", " ", "$", "3", "9", "5", ",", "0", "0", "0", " ", "|", " ",
      "$", "4", "4", "5", ",", "0", "0", "0", " ", "|", " ", "3", "0", ".", "9", "%">>,
    <<>>,
    <<" ", " ", " ", " ", " ", " ", "R", "e", "g", "i", "o", "n", "a", "l", " ", "P",
      "e", "r", "f", "o", "r", "m", "a", "n", "c", "e">>,
    <<" ", " ", " ", " ", " ", " ", "R", "e", "g", "i", "o", "n", " ", "|", " ", "S",
      "a", "l", "e", "s", " ", "T", "a", "r", "g", "e", "t", " ", "|", " ", "A", "c",
      "t", "u", "a", "l", " ", "S", "a", "l", "e", "s", " ", "|", " ", "A", "c", "h",
      "i", "e", "v", "e", "m", "e", "n", "t", " ", "%", " ", "|", " ", "S", "t", "a",
      "t", "u", "s">>,
    <<" ", " ", " ", " ", " ", " ", "N", "o", "r", "t", "h", " ", "A", "m", "e", "r",
      "i", "c", "a", " ", "|", " ", "$", "4", ",", "2", "0", "0", ",", "0", "0", "0",
      " ", "|", " ", "$", "4", ",", "5", "8", "0", ",", "0", "0", "0", " ", "|", " ",
      "1", "0", "9", "%", " ", "|", " ", "E", "x", "c", "e", "e", "d", "e", "d">>,
    <<" ", " ", " ", " ", " ", " ", "E", "u", "r", "o", "p", "e", " ", "|", " ", "$",
      "2", ",", "8", "0", "0", ",", "0", "0", "0", " ", "|", " ", "$", "2", ",", "6",
      "5", "0", ",", "0", "0", "0", " ", "|", " ", "9", "5", "%", " ", "|", " ", "N",
      "e", "a", "r", " ", "T", "a", "r", "g", "e", "t">>,
    <<" ", " ", " ", " ", " ", " ", "A", "s", "i", "a", " ", "P", "a", "c", "i", "f",
      "i", "c", " ", "|", " ", "$", "2", ",", "1", "0", "0", ",", "0", "0", "0", " ",
      "|", " ", "$", "2", ",", "3", "4", "0", ",", "0", "0", "0", " ", "|", " ", "1",
      "1", "1", "%", " ", "|", " ", "E", "x", "c", "e", "e", "d", "e", "d">>,
    <<" ", " ", " ", " ", " ", " ", "L", "a", "t", "i", "n", " ", "A", "m", "e", "r",
      "i", "c", "a", " ", "|", " ", "$", "1", ",", "2", "0", "0", ",", "0", "0", "0",
      " ", "|", " ", "$", "1", ",", "1", "8", "0", ",", "0", "0", "0", " ", "|", " ",
      "9", "8", "%", " ", "|", " ", "N", "e", "a", "r", " ", "T", "a", "r", "g", "e",
      "t">>,
    <<>>,
    <<" ", " ", " ", " ", " ", " ", "D", "e", "p", "a", "r", "t", "m", "e", "n", "t",
      " ", "B", "u", "d", "g", "e", "t", " ", "A", "n", "a", "l", "y", "s", "i", "s">>,
    <<" ", " ", " ", " ", " ", " ", "D", "e", "p", "a", "r", "t", "m", "e", "n", "t",
      " ", "|", " ", "A", "l", "l", "o", "c", "a", "t", "e", "d", " ", "B", "u", "d",
      "g", "e", "t", " ", "|", " ", "A", "c", "t", "u", "a", "l", " ", "S", "p", "e",
      "n", "d", " ", "|", " ", "V", "a", "r", "i", "a", "n", "c", "e", " ", "|", " ",
      "E", "f", "f", "i", "c", "i", "e", "n", "c", "y">>,
    <<" ", " ", " ", " ", " ", " ", "M", "a", "r", "k", "e", "t", "i", "n", "g", " ",
      "|", " ", "$", "8", "5", "0", ",", "0", "0", "0", " ", "|", " ", "$", "7", "8",
      "5", ",", "0", "0", "0", " ", "|", " ", "-", "$", "6", "5", ",", "0", "0", "0",
      " ", "|", " ", "9", "2", "%">>,
    <<" ", " ", " ", " ", " ", " ", "S", "a", "l", "e", "s", " ", "|", " ", "$", "1",
      ",", "2", "0", "0", ",", "0", "0", "0", " ", "|", " ", "$", "1", ",", "1", "6",
      "5", ",", "0", "0", "0", " ", "|", " ", "-", "$", "3", "5", ",", "0", "0", "0",
      " ", "|", " ", "9", "7", "%">>,
    <<" ", " ", " ", " ", " ", " ", "R", "&", "D", " ", "|", " ", "$", "2", ",", "1",
      "0", "0", ",", "0", "0", "0", " ", "|", " ", "$", "2", ",", "0", "5", "0", ",",
      "0", "0", "0", " ", "|", " ", "-", "$", "5", "0", ",", "0", "0", "0", " ", "|",
      " ", "9", "8", "%">>,
    <<" ", " ", " ", " ", " ", " ", "O", "p", "e", "r", "a", "t", "i", "o", "n", "s",
      " ", "|", " ", "$", "9", "5", "0", ",", "0", "0", "0", " ", "|", " ", "$", "9",
      "2", "0", ",", "0", "0", "0", " ", "|", " ", "-", "$", "3", "0", ",", "0", "0",
      "0", " ", "|", " ", "9", "7", "%">>,
    <<" "," "," "," ">>>>

MaxTextPages == 50

OcrPageLimit == 10

\* getPdfPageCount
PdfPageCount == 3

\* `--- Page ${p} ---`
PageMarker(p) ==
  <<"-", "-", "-", " ", "P", "a", "g", "e", " ">> \o ToStr(p) \o <<" ", "-", "-", "-">>

\* items.map(i => i.str || '').join(' ')
RECURSIVE JoinItems(_)
JoinItems(items) ==
  IF items = <<>> THEN <<>>
  ELSE IF Len(items) = 1 THEN items[1].str
  ELSE items[1].str \o <<" ">> \o JoinItems(Tail(items))

\* the loop of extractTextFromPDF over the pdfjs pages
RECURSIVE PdfJsPages(_, _, _)
PdfJsPages(pages, p, fullText) ==
  IF p > Min(Len(pages), MaxTextPages) THEN fullText
  ELSE PdfJsPages(pages, p + 1,
         Concat(fullText, <<<<>>, <<>>, PageMarker(p), JoinItems(pages[p].items), <<>>>>))

\* extractTextFromPDF: '' when anything throws; the server processor does
\* not extract text at all
extractTextFromPDF(doc, variant) ==
  CASE variant = "pdfjs" ->
         IF doc.corrupt
            \/ \E p \in 1..Min(Len(doc.pages), MaxTextPages) : doc.pages[p].fails
           THEN EmptyText
           ELSE PdfJsPages(doc.pages, 1, EmptyText)
    [] variant = "pdfparse" -> IF doc.corrupt THEN EmptyText ELSE doc.plain
    [] variant = "ocr" -> EmptyText

\* the page loop of performOCR: a page without an image is skipped
RECURSIVE OcrPages(_, _, _)
OcrPages(scan, pageNum, allOcrText) ==
  IF pageNum > Min(PdfPageCount, OcrPageLimit) THEN allOcrText
  ELSE OcrPages(scan, pageNum + 1,
         IF pageNum <= Len(scan)
           THEN Concat(Concat(allOcrText, <<<<>>, <<>>, PageMarker(pageNum), <<>>>>),
                       scan[pageNum])
           ELSE allOcrText)

\* What performOCR can do.  "throws": createWorker or worker.terminate
\* rejects, outside the try block.  "fails": something inside the try block
\* throws.  "returns": the try block runs to its return statement.
OcrOutcomes == {"throws", "fails", "returns"}

\* the string performOCR resolves to when it does not throw
performOCR(doc, outcome, variant) ==
  IF variant = "pdfparse"
    THEN IF outcome = "fails" THEN EmptyText ELSE SimulatedOCRText
    ELSE IF outcome = "fails" THEN SimulatedOCRText
         ELSE LET allOcrText == OcrPages(doc.scan, 1, EmptyText)
              IN  IF allOcrText = EmptyText THEN SimulatedOCRText ELSE allOcrText

\* [pdfText, ocrText].filter(text => text.trim().length > 0).join('\n\n')
\*   || ocrText
combineTextSources(pdfText, ocrText) ==
  LET combined ==
        IF ~IsBlankText(pdfText) /\ ~IsBlankText(ocrText)
          THEN Concat(Concat(pdfText, <<<<>>, <<>>, <<>>>>), ocrText)
        ELSE IF ~IsBlankText(pdfText) THEN pdfText
        ELSE IF ~IsBlankText(ocrText) THEN ocrText
        ELSE EmptyText
  IN  IF combined = EmptyText THEN ocrText ELSE combined

(***************************************************************************)
(* ProcessingOptions: an optional field is a sequence of length 0 or 1     *)
(***************************************************************************)

NoOptions ==
  [ocrLanguage |-> <<>>, confidenceThreshold |-> <<>>,
   tableDetectionSensitivity |-> <<>>]

DefaultThreshold == 70

\* options.confidenceThreshold || 70
ThresholdOf(options) ==
  IF options.confidenceThreshold = <<>> \/ options.confidenceThreshold[1] = 0
    THEN DefaultThreshold
    ELSE options.confidenceThreshold[1]

\* options.tableDetectionSensitivity || 'medium'
SensitivityOf(options) ==
  IF options.tableDetectionSensitivity = <<>> THEN "medium"
  ELSE options.tableDetectionSensitivity[1]

\* the fallback table saved after the tables of a detector
SavedTablesAndFallback(layout, text, combinedText, variant) ==
  (IF layout # <<>> THEN layout ELSE text) \o <<FallbackTable(combinedText)>>

\* the tables processJob saves: the first non-empty of the layout tables,
\* the text tables and, where the processor has one, the fallback table
SavedTables(layout, text, combinedText, variant) ==
  IF layout # <<>> THEN layout
  ELSE IF text # <<>> \/ variant # "pdfjs" THEN text
  ELSE <<FallbackTable(combinedText)>>

\* the text detector runs when there is no layout table
AfterLayoutDetection(layout, combinedText, options, variant) ==
  LET textRan == layout = <<>>
      text == IF textRan
                THEN detectTables(combinedText, ThresholdOf(options),
                                  SensitivityOf(options), variant)
                ELSE <<>>
  IN  [layout |-> layout, layoutRan |-> variant = "pdfjs", textRan |-> textRan,
       text |-> text,
       tables |-> SavedTables(layout, text, combinedText, variant)]

\* Step 4 of processJob and the final fallback: which detectors run and
\* the tables that are saved.  Only "pdfjs" has a layout detector.
AssembleTables(doc, combinedText, options, variant) ==
  AfterLayoutDetection(IF variant = "pdfjs" THEN detectTablesByLayout(doc) ELSE <<>>,
                       combinedText, options, variant)

(***************************************************************************)
(* State                                                                   *)
(***************************************************************************)

VARIABLES
  variant,          \* which PDFProcessor source is deployed
  routes,           \* which route table is deployed: 1 or 2
  processingJobs,   \* MemStorage.processingJobs: job id -> job
  extractedTables,  \* MemStorage.extractedTables: table id -> table
  originalFiles,    \* MemStorage.originalFiles: job id -> document
  excelFiles,       \* MemStorage.excelFiles: the keys of the cached files
  isProcessing,     \* PDFProcessor.isProcessing
  runs,             \* the processJob calls that await a text or layout source
  nextJobId,        \* the ids randomUUID has handed out for jobs
  nextTableId,      \* and for tables
  requests,         \* the number of requests served
  event,            \* what the last request or processJob step did
  input,            \* the arguments of a detector call
  output            \* and its result

vars ==
  <<variant, routes, processingJobs, extractedTables, originalFiles, excelFiles,
    isProcessing, runs, nextJobId, nextTableId, requests, event, input, output>>

storageVars == <<processingJobs, extractedTables, originalFiles, excelFiles>>

pipelineVars ==
  <<processingJobs, extractedTables, originalFiles, excelFiles, isProcessing,
    runs, nextJobId, nextTableId, requests, event>>

NULL == "null"

NoEvent == [op |-> "none"]

NoInput == [kind |-> "none"]

NoOutput == [fn |-> "none"]

(***************************************************************************)
(* MemStorage                                                              *)
(***************************************************************************)

\* the job createProcessingJob makes of { status: 'pending' }
NewJob ==
  [status |-> "pending", progress |-> 0, completedAt |-> NULL, errorMessage |-> NULL]

\* updateProcessingJob: nothing happens when the job does not exist;
\* updates is a record of some of the job's fields
updateProcessingJob(jobs, id, updates) ==
  IF id \notin DOMAIN jobs THEN jobs
  ELSE LET existing == jobs[id]
           updated ==
             [f \in DOMAIN existing |->
                IF f \in DOMAIN updates
                  THEN IF f = "progress" THEN Max(0, Min(100, updates[f]))
                       ELSE updates[f]
                  ELSE existing[f]]
       IN  [jobs EXCEPT ![id] = updated]

\* the ids of the tables getExtractedTablesByJobId returns
TableIdsOf(tables, jobId) == {t \in DOMAIN tables : tables[t].jobId = jobId}

Restrict(f, S) == [x \in S |-> f[x]]

\* createExtractedTable for every table of a sequence, in order, with ids
\* from firstId on
SaveTables(tables, jobId, found, firstId) ==
  [t \in DOMAIN tables \cup {firstId + i - 1 : i \in 1..Len(found)} |->
     IF t \in DOMAIN tables THEN tables[t]
     ELSE [jobId |-> jobId,
           tableIndex |-> found[t - firstId + 1].tableIndex,
           headers |-> found[t - firstId + 1].headers,
           data |-> found[t - firstId + 1].data,
           confidence |-> found[t - firstId + 1].confidence,
           boundingBox |-> found[t - firstId + 1].boundingBox]]

\* a clean-up that deletes the tables of every job
DeleteTablesOfAnyJob(tables, jobId) == Restrict(tables, {})

\* deleteExtractedTable for every table of the job
DeleteTablesOf(tables, jobId) ==
  Restrict(tables, DOMAIN tables \ TableIdsOf(tables, jobId))

\* the keys of excelFiles: <<jobId, 0>> for "jobId", <<jobId, tableId>> for
\* "jobId:tableId"
ExcelKey(jobId, tableId) == <<jobId, tableId>>

(***************************************************************************)
(* PDFProcessor.processJob                                                 *)
(*                                                                         *)
(* MemStorage does no I/O: an await of one of its methods resumes in the   *)
(* same turn of the event loop.  processJob can therefore be interleaved   *)
(* with the requests only where it awaits a text source: the text          *)
(* extraction, the OCR, the layout detection.  A step of the model runs    *)
(* processJob from one of these awaits to the next.  st is the state a     *)
(* step works on: [jobs, tables, isProcessing, runs, nextTableId, event].  *)
(***************************************************************************)

State ==
  [jobs |-> processingJobs, tables |-> extractedTables,
   isProcessing |-> isProcessing, runs |-> runs, nextTableId |-> nextTableId,
   event |-> event]

updateProgress(jobs, jobId, progress) ==
  updateProcessingJob(jobs, jobId, [progress |-> progress])

RemoveAt(seq, i) == SubSeq(seq, 1, i - 1) \o SubSeq(seq, i + 1, Len(seq))

\* a catch block that does not read the message of the error
FailRunUnknownError(st, jobId, message, remaining) ==
  [st EXCEPT
     !.jobs = updateProcessingJob(st.jobs, jobId,
                [status |-> "failed", progress |-> 0,
                 errorMessage |-> "Unknown error occurred"]),
     !.isProcessing = st.isProcessing \ {jobId},
     !.runs = remaining,
     !.event = [op |-> "failed", jobId |-> jobId, message |-> message]]

\* the catch block without the finally block: the job stays in isProcessing
FailRunKeepingInFlight(st, jobId, message, remaining) ==
  [st EXCEPT
     !.jobs = updateProcessingJob(st.jobs, jobId,
                [status |-> "failed", progress |-> 0, errorMessage |-> message]),
     !.runs = remaining,
     !.event = [op |-> "failed", jobId |-> jobId, message |-> message]]

\* the catch and finally blocks
FailRun(st, jobId, message, remaining) ==
  [st EXCEPT
     !.jobs = updateProcessingJob(st.jobs, jobId,
                [status |-> "failed", progress |-> 0, errorMessage |-> message]),
     !.isProcessing = st.isProcessing \ {jobId},
     !.runs = remaining,
     !.event = [op |-> "failed", jobId |-> jobId, message |-> message]]

\* what a call of processJob did: the state of its promise when the step
\* ends and the error it rejected with, and what the call found: whether a
\* call for the job was awaiting a text source, the jobs and the tables
Called(st, jobId, promise, error) ==
  [op |-> "processJob", jobId |-> jobId, promise |-> promise, error |-> error,
   inFlight |-> \E i \in 1..Len(st.runs) : st.runs[i].jobId = jobId,
   jobs |-> st.jobs, tables |-> st.tables]

\* processJob from isProcessing.add to its first await of a text source
AdmitProcessJob(st, files, jobId, options) ==
  LET admitted ==
        [st EXCEPT
           !.isProcessing = st.isProcessing \cup {jobId},
           !.jobs = updateProcessingJob(st.jobs, jobId,
                      [status |-> "processing", progress |-> 0])]
  IN  IF jobId \notin DOMAIN files
        THEN [FailRun(admitted, jobId, "Original PDF file not found", st.runs)
                EXCEPT !.event = Called(st, jobId, "resolved", NULL)]
        ELSE
          LET run == [jobId |-> jobId, options |-> options, doc |-> files[jobId],
                      pc |-> IF variant = "ocr" THEN "ocr" ELSE "extract",
                      pdfText |-> EmptyText, combinedText |-> EmptyText]
              jobs10 == updateProgress(admitted.jobs, jobId, 10)
          IN  [admitted EXCEPT
                 !.jobs = IF variant = "ocr" THEN updateProgress(jobs10, jobId, 40)
                          ELSE jobs10,
                 !.runs = Append(st.runs, run),
                 !.event = Called(st, jobId, "pending", NULL)]

\* a processJob that starts whether or not the job is being processed
StartProcessJobUnchecked(st, files, jobId, options) ==
  AdmitProcessJob(st, files, jobId, options)

\* the call of processJob up to its first await of a text source: it
\* throws 'Job is already being processed' when isProcessing has the job
StartProcessJob(st, files, jobId, options) ==
  IF jobId \in st.isProcessing
    THEN [st EXCEPT !.event = Called(st, jobId, "rejected", "Job is already being processed")]
    ELSE AdmitProcessJob(st, files, jobId, options)

\* Steps 3 and 4 up to the await of the layout detection
AnalyzeText(st, i, pdfText, ocrText) ==
  LET run == st.runs[i]
      jobs60 == updateProgress(st.jobs, run.jobId, 60)
      combinedText == combineTextSources(pdfText, ocrText)
      jobs80 == updateProgress(jobs60, run.jobId, 80)
  IN  [st EXCEPT
         !.jobs = jobs80,
         !.runs[i] = [run EXCEPT !.pc = "layout", !.pdfText = pdfText,
                                 !.combinedText = combinedText],
         !.event = [op |-> "progress", jobId |-> run.jobId]]

\* Steps 5 and 6 and the finally block
SaveAndComplete(st, i, found) ==
  LET run == st.runs[i]
      jobs95 == updateProgress(st.jobs, run.jobId, 95)
      jobs100 == updateProgress(jobs95, run.jobId, 100)
  IN  [st EXCEPT
         !.tables = SaveTables(st.tables, run.jobId, found.tables, st.nextTableId),
         !.nextTableId = st.nextTableId + Len(found.tables),
         !.jobs = updateProcessingJob(jobs100, run.jobId,
                    [status |-> "completed", progress |-> 100, completedAt |-> "date"]),
         !.isProcessing = st.isProcessing \ {run.jobId},
         !.runs = RemoveAt(st.runs, i),
         !.event = [op |-> "completed", jobId |-> run.jobId,
                    options |-> run.options,
                    combinedText |-> run.combinedText,
                    layoutRan |-> found.layoutRan, layout |-> found.layout,
                    textRan |-> found.textRan, text |-> found.text,
                    firstId |-> st.nextTableId]]

\* from the detection of the tables to the end of processJob
FinishRun(st, i) ==
  SaveAndComplete(st, i,
    AssembleTables(st.runs[i].doc, st.runs[i].combinedText, st.runs[i].options,
                   variant))

\* extractTextFromPDF has returned
AfterExtract(st, i) ==
  LET run == st.runs[i]
      pdfText == extractTextFromPDF(run.doc, variant)
  IN  IF variant = "pdfparse" \/ run.options.ocrLanguage \notin {<<>>, <<"">>}
        THEN [st EXCEPT
                !.jobs = updateProgress(st.jobs, run.jobId, 40),
                !.runs[i] = [run EXCEPT !.pc = "ocr", !.pdfText = pdfText],
                !.event = [op |-> "progress", jobId |-> run.jobId]]
        ELSE AnalyzeText(st, i, pdfText, EmptyText)

\* performOCR has returned or thrown
AfterOcr(st, i, outcome) ==
  LET run == st.runs[i]
  IN  IF outcome = "throws"
        THEN FailRun(st, run.jobId, "OCR worker error", RemoveAt(st.runs, i))
        ELSE IF variant = "pdfjs"
          THEN AnalyzeText(st, i, run.pdfText, performOCR(run.doc, outcome, variant))
          ELSE FinishRun(
                 AnalyzeText(st, i, run.pdfText, performOCR(run.doc, outcome, variant)),
                 i)

\* detectTablesByLayout has returned
AfterLayout(st, i) == FinishRun(st, i)

(***************************************************************************)
(* Routes.  A handler awaits nothing but MemStorage, so it runs in one     *)
(* step, the start of the processJob call it makes included.               *)
(***************************************************************************)

MaxJobs == 2

MaxRequests == 4

\* one page with a table; pdf-parse and OCR read the same two lines
TableDocument ==
  [corrupt |-> FALSE, pages |-> <<TablePage>>,
   plain |-> <<<<"N","a","m","e","|","Q","t","y">>, <<"N","u","t","|","5">>,
               <<"F","i","g","|","7">>>>,
   scan |-> <<<<<<"N","a","m","e","|","Q","t","y">>, <<"N","u","t","|","5">>,
                <<"F","i","g","|","7">>>>>>]

\* one page of prose
ProseDocument ==
  [corrupt |-> FALSE, pages |-> <<ProsePage>>,
   plain |-> <<<<"h","e","l","l","o">>, <<"w","o","r","l","d">>>>,
   scan |-> <<<<<<"h","e","l","l","o">>, <<"w","o","r","l","d">>>>>>]

\* a scan without a text layer whose pages cannot be rendered to images
BlankDocument ==
  [corrupt |-> FALSE, pages |-> <<BlankPage>>, plain |-> EmptyText, scan |-> <<>>]

\* one page of prose over a scan and a text layer of two lines 'Ab|Cd|Ef|Gh'
\* and '|Ab|Cd|', a block that scores 60
LowScoreDocument ==
  [corrupt |-> FALSE, pages |-> <<ProsePage>>,
   plain |-> <<<<"A","b","|","C","d","|","E","f","|","G","h">>,
               <<"|","A","b","|","C","d","|">>>>,
   scan |-> <<<<<<"A","b","|","C","d","|","E","f","|","G","h">>,
                <<"|","A","b","|","C","d","|">>>>>>]

PipelineDocuments == {TableDocument, ProseDocument, BlankDocument}

Put(f, k, v) == [x \in DOMAIN f \cup {k} |-> IF x = k THEN v ELSE f[x]]

Response(jobId, status) == [op |-> "response", jobId |-> jobId, status |-> status]

Commit(st) ==
  /\ processingJobs' = st.jobs
  /\ extractedTables' = st.tables
  /\ isProcessing' = st.isProcessing
  /\ runs' = st.runs
  /\ nextTableId' = st.nextTableId
  /\ event' = st.event

Served ==
  /\ requests' = requests + 1
  /\ UNCHANGED <<variant, routes, input, output>>

\* POST /api/jobs/upload
Upload(doc) ==
  /\ requests < MaxRequests
  /\ nextJobId <= MaxJobs
  /\ processingJobs' = Put(processingJobs, nextJobId, NewJob)
  /\ originalFiles' = Put(originalFiles, nextJobId, doc)
  /\ nextJobId' = nextJobId + 1
  /\ event' = [op |-> "uploaded", jobId |-> nextJobId]
  /\ Served
  /\ UNCHANGED <<extractedTables, excelFiles, isProcessing, runs, nextTableId>>

\* POST /api/jobs/:id/process
PostProcess(jobId) ==
  /\ requests < MaxRequests
  /\ IF jobId \notin DOMAIN processingJobs
       THEN Commit([State EXCEPT !.event = Response(jobId, 404)])
     ELSE IF routes = 1 /\ processingJobs[jobId].status \notin {"pending", "failed"}
       THEN Commit([State EXCEPT !.event = Response(jobId, 400)])
     ELSE IF jobId \notin DOMAIN originalFiles
       THEN Commit([State EXCEPT !.event = Response(jobId, 409)])
     ELSE IF routes = 1
       THEN Commit(StartProcessJob(
                     [State EXCEPT !.jobs =
                        updateProcessingJob(processingJobs, jobId,
                          [status |-> "processing", progress |-> 0,
                           errorMessage |-> NULL])],
                     originalFiles, jobId, NoOptions))
     ELSE Commit(StartProcessJob(State, originalFiles, jobId, NoOptions))
  /\ Served
  /\ UNCHANGED <<originalFiles, excelFiles, nextJobId>>

\* POST /api/jobs/:id/reprocess
PostReprocess(jobId) ==
  /\ requests < MaxRequests
  /\ IF jobId \notin DOMAIN processingJobs
       THEN /\ Commit([State EXCEPT !.event = Response(jobId, 404)])
            /\ UNCHANGED excelFiles
       ELSE
         LET tables == TableIdsOf(extractedTables, jobId)
             cleared == [State EXCEPT !.tables = DeleteTablesOf(extractedTables, jobId)]
         IN  IF routes = 1
               THEN /\ excelFiles' =
                         excelFiles \ ({ExcelKey(jobId, 0)}
                                         \cup {ExcelKey(jobId, t) : t \in tables})
                    /\ Commit([cleared EXCEPT
                                 !.jobs = updateProcessingJob(processingJobs, jobId,
                                            [status |-> "pending", progress |-> 0,
                                             completedAt |-> NULL,
                                             errorMessage |-> NULL]),
                                 !.event = [op |-> "reset", jobId |-> jobId]])
               ELSE /\ excelFiles' = excelFiles \ {ExcelKey(jobId, 0)}
                    /\ Commit(StartProcessJob(
                                [cleared EXCEPT
                                   !.jobs = updateProcessingJob(processingJobs, jobId,
                                              [status |-> "pending", progress |-> 0,
                                               errorMessage |-> NULL])],
                                originalFiles, jobId, NoOptions))
  /\ Served
  /\ UNCHANGED <<originalFiles, nextJobId>>

\* DELETE /api/jobs/:id: MemStorage.deleteProcessingJob
DeleteJob(jobId) ==
  /\ requests < MaxRequests
  /\ extractedTables' = DeleteTablesOf(extractedTables, jobId)
  /\ originalFiles' = Restrict(originalFiles, DOMAIN originalFiles \ {jobId})
  /\ excelFiles' = {key \in excelFiles : key[1] # jobId}
  /\ processingJobs' = Restrict(processingJobs, DOMAIN processingJobs \ {jobId})
  /\ event' = IF jobId \in DOMAIN processingJobs
                THEN [op |-> "deleted", jobId |-> jobId]
                ELSE Response(jobId, 404)
  /\ Served
  /\ UNCHANGED <<isProcessing, runs, nextJobId, nextTableId>>

\* GET /api/jobs/:id/download.  The second route table calls
\* storage.getProcessedFile, which MemStorage does not have: the handler
\* ends in an error.
DownloadJob(jobId) ==
  /\ requests < MaxRequests
  /\ IF jobId \notin DOMAIN processingJobs
       THEN /\ event' = Response(jobId, 404)
            /\ UNCHANGED excelFiles
     ELSE IF processingJobs[jobId].status # "completed"
       THEN /\ event' = Response(jobId, IF routes = 1 THEN 400 ELSE 404)
            /\ UNCHANGED excelFiles
     ELSE IF routes = 2
            \/ (ExcelKey(jobId, 0) \notin excelFiles
                  /\ TableIdsOf(extractedTables, jobId) = {})
       THEN /\ event' = Response(jobId, 500)
            /\ UNCHANGED excelFiles
     ELSE /\ event' = Response(jobId, 200)
          /\ excelFiles' = excelFiles \cup {ExcelKey(jobId, 0)}
  /\ Served
  /\ UNCHANGED <<processingJobs, extractedTables, originalFiles, isProcessing,
                 runs, nextJobId, nextTableId>>

\* GET /api/jobs/:jobId/tables/:tableId/download
DownloadTable(jobId, tableId) ==
  /\ requests < MaxRequests
  /\ IF tableId \notin DOMAIN extractedTables
       THEN /\ event' = Response(jobId, IF routes = 1 THEN 404 ELSE 500)
            /\ UNCHANGED excelFiles
     ELSE IF routes = 1 /\ extractedTables[tableId].jobId # jobId
       THEN /\ event' = Response(jobId, 404)
            /\ UNCHANGED excelFiles
     ELSE /\ event' = Response(jobId, 200)
          /\ excelFiles' =
               excelFiles \cup {ExcelKey(extractedTables[tableId].jobId, tableId)}
  /\ Served
  /\ UNCHANGED <<processingJobs, extractedTables, originalFiles, isProcessing,
                 runs, nextJobId, nextTableId>>

(***************************************************************************)
(* The steps of the processJob calls in flight                             *)
(***************************************************************************)

RunStep(st) ==
  /\ Commit(st)
  /\ UNCHANGED <<variant, routes, originalFiles, excelFiles, nextJobId, requests,
                 input, output>>

ExtractDone(i) ==
  /\ runs[i].pc = "extract"
  /\ RunStep(AfterExtract(State, i))

OcrDone(i, outcome) ==
  /\ runs[i].pc = "ocr"
  /\ RunStep(AfterOcr(State, i, outcome))

LayoutDone(i) ==
  /\ runs[i].pc = "layout"
  /\ RunStep(AfterLayout(State, i))

(***************************************************************************)
(* Calls of the exported objects that no route makes: processJob with      *)
(* ProcessingOptions (the batch scripts call pdfProcessor.processJob       *)
(* themselves) and MemStorage.deleteOriginalFile                           *)
(***************************************************************************)

PipelineOptions ==
  {NoOptions,
   [NoOptions EXCEPT !.ocrLanguage = <<"eng">>],
   [NoOptions EXCEPT !.confidenceThreshold = <<95>>]}

CallProcessJob(jobId, options) ==
  /\ requests < MaxRequests
  /\ Commit(StartProcessJob(State, originalFiles, jobId, options))
  /\ Served
  /\ UNCHANGED <<originalFiles, excelFiles, nextJobId>>

DeleteOriginalFile(jobId) ==
  /\ requests < MaxRequests
  /\ originalFiles' = Restrict(originalFiles, DOMAIN originalFiles \ {jobId})
  /\ event' = [op |-> "fileDeleted", jobId |-> jobId]
  /\ Served
  /\ UNCHANGED <<processingJobs, extractedTables, excelFiles, isProcessing, runs,
                 nextJobId, nextTableId>>

(***************************************************************************)
(* Specifications                                                          *)
(***************************************************************************)

Init ==
  /\ variant \in Variants
  /\ routes \in {1, 2}
  /\ processingJobs = <<>>
  /\ extractedTables = <<>>
  /\ originalFiles = <<>>
  /\ excelFiles = {}
  /\ isProcessing = {}
  /\ runs = <<>>
  /\ nextJobId = 1
  /\ nextTableId = 1
  /\ requests = 0
  /\ event = NoEvent
  /\ input = NoInput
  /\ output = NoOutput

JobIds == 1..(nextJobId - 1)

TableIds == 1..(nextTableId - 1)

Request ==
  \/ \E doc \in PipelineDocuments : Upload(doc)
  \/ \E jobId \in JobIds : PostProcess(jobId)
  \/ \E jobId \in JobIds : PostReprocess(jobId)
  \/ \E jobId \in JobIds : DeleteJob(jobId)
  \/ \E jobId \in JobIds : DownloadJob(jobId)
  \/ \E jobId \in JobIds, tableId \in TableIds : DownloadTable(jobId, tableId)

Background ==
  \/ \E i \in 1..Len(runs) : ExtractDone(i)
  \/ \E i \in 1..Len(runs), outcome \in OcrOutcomes : OcrDone(i, outcome)
  \/ \E i \in 1..Len(runs) : LayoutDone(i)

Next == Request \/ Background

Spec == Init /\ [][Next]_vars

ApiCall ==
  \/ \E jobId \in JobIds, options \in PipelineOptions : CallProcessJob(jobId, options)
  \/ \E jobId \in JobIds : DeleteOriginalFile(jobId)

ApiNext == Next \/ ApiCall

ApiSpec == Init /\ [][ApiNext]_vars

(***************************************************************************)
(* The text-pattern detector called again and again on one PDFProcessor,    *)
(* between the steps of its processJob runs.  output keeps the last call:  *)
(* its arguments, its result, and, when the arguments are those of the     *)
(* call before it, the result of that call.                                *)
(***************************************************************************)

\* one block of two rows
OneBlock == <<<<"x","|","1","|","2">>, <<"x","|","1","|","2">>>>

PurityTexts == {TwoBlocks, OneBlock}

\* a detector that numbers its tables from the size of this.isProcessing
detectTablesCountingRuns(processing, text, confidenceThreshold, sensitivity) ==
  ScanLines(NonBlankLines(text), 1,
            [tables |-> <<>>, tableIndex |-> Cardinality(processing)], <<>>, FALSE,
            confidenceThreshold, sensitivity, variant)

\* this.detectTables(text, confidenceThreshold, sensitivity) on the
\* instance whose isProcessing is processing: the method reads no field
detectTablesOfInstance(processing, text, confidenceThreshold, sensitivity) ==
  detectTables(text, confidenceThreshold, sensitivity, variant)

CallDetectTables(text, confidenceThreshold, sensitivity) ==
  /\ requests < MaxRequests
  /\ requests' = requests + 1
  /\ output' =
       LET again == /\ output.fn = "detectTables"
                    /\ output.text = text
                    /\ output.confidenceThreshold = confidenceThreshold
                    /\ output.sensitivity = sensitivity
       IN  [fn |-> "detectTables", text |-> text,
            confidenceThreshold |-> confidenceThreshold, sensitivity |-> sensitivity,
            tables |-> detectTablesOfInstance(isProcessing, text,
                                              confidenceThreshold, sensitivity),
            again |-> again,
            earlier |-> IF again THEN output.tables ELSE <<>>]
  /\ UNCHANGED <<variant, routes, processingJobs, extractedTables, originalFiles,
                 excelFiles, isProcessing, runs, nextJobId, nextTableId, event,
                 input>>

PurityNext ==
  \/ \E doc \in PipelineDocuments : Upload(doc)
  \/ \E jobId \in JobIds : PostProcess(jobId)
  \/ Background
  \/ \E text \in PurityTexts, confidenceThreshold \in Thresholds,
        sensitivity \in {"medium", "high"} :
          CallDetectTables(text, confidenceThreshold, sensitivity)

PuritySpec == Init /\ [][PurityNext]_vars

(***************************************************************************)
(* The flexible batch command: main of the launcher parses process.argv,   *)
(* scans and reports, then calls runFlexibleBatch, which reads process.argv *)
(* again.  An argument is a sequence of characters.                        *)
(***************************************************************************)

DefaultPattern == <<"s", "a", "m", "p", "l", "*">>

OptScan == <<"-", "-", "s", "c", "a", "n">>

OptTabula == <<"-", "-", "t", "a", "b", "u", "l", "a">>

OptPattern == <<"-", "-", "p", "a", "t", "t", "e", "r", "n">>

BatchTokens == {OptScan, OptTabula, OptPattern, <<"t", "e", "s", "t", "*">>, <<"d", "a", "t", "a">>}

MaxArgs == 3

BatchArgs == SeqsUpTo(BatchTokens, MaxArgs)

\* arg.startsWith('-')
StartsWithDash(arg) == arg # <<>> /\ Head(arg) = "-"

\* the loop of main over args from index i on (1-based); parsed is
\* [pattern, scanOnly, useTabula]
RECURSIVE ParseArgs(_, _, _)
ParseArgs(args, i, parsed) ==
  IF i > Len(args) THEN parsed
  ELSE
    LET arg == args[i]
    IN  IF arg = OptScan
          THEN ParseArgs(args, i + 1, [parsed EXCEPT !.scanOnly = TRUE])
        ELSE IF arg = OptTabula
          THEN ParseArgs(args, i + 1, [parsed EXCEPT !.useTabula = TRUE])
        ELSE IF arg = OptPattern
          THEN ParseArgs(args, i + 2,
                 IF i + 1 <= Len(args) /\ args[i + 1] # <<>>
                   THEN [parsed EXCEPT !.pattern = args[i + 1]]
                   ELSE parsed)
        ELSE IF ~StartsWithDash(arg) /\ ~HasAny(parsed.pattern, {"*"})
          THEN ParseArgs(args, i + 1, [parsed EXCEPT !.pattern = arg])
        ELSE ParseArgs(args, i + 1, parsed)

\* runFlexibleBatch: process.argv[2] || 'sampl*'
folderPattern(args) ==
  IF args # <<>> /\ args[1] # <<>> THEN args[1] ELSE DefaultPattern

\* main of the launcher: the pattern it scans with and reports, and the
\* pattern the files are then processed with; finds says whether the scan
\* of the launcher found a PDF file.  processed is a sequence of length 0
\* or 1: empty when nothing is processed or the Tabula batch is chosen.
batchFlexible(args, finds) ==
  LET parsed == ParseArgs(args, 1, [pattern |-> DefaultPattern, scanOnly |-> FALSE,
                                    useTabula |-> FALSE])
  IN  [scanned |-> parsed.pattern,
       processed |-> IF finds /\ ~parsed.scanOnly /\ ~parsed.useTabula
                       THEN <<folderPattern(args)>> ELSE <<>>]

(***************************************************************************)
(* The detectors on their own: a call of one detector on one input         *)
(***************************************************************************)

\* two lines with one pipe and two runs of two spaces each
MixedBlock ==
  <<<<"1", " ", " ", "2", " ", " ", "3", "|", "4">>,
    <<"1", " ", " ", "2", " ", " ", "3", "|", "4">>>>

\* the blocks detectTables can hand to parseTable: two or more trimmed
\* non-blank lines that are table-like at one sensitivity
Blocks ==
  {block \in Texts \cup {MixedBlock} :
     /\ Len(block) >= 2
     /\ \A i \in 1..Len(block) : block[i] # <<>> /\ Trim(block[i]) = block[i]
     /\ \E sensitivity \in Sensitivities :
          \A i \in 1..Len(block) : isTableLine(block[i], sensitivity)}

DetectorInputs ==
  [kind : {"text"}, text : Texts \cup {TwoBlocks, SparseBlock},
   confidenceThreshold : Thresholds,
   sensitivity : Sensitivities, variant : Variants]
    \cup [kind : {"combined"}, text : Texts \cup {EmptyText}, variant : {"pdfjs"}]
    \cup [kind : {"document"}, doc : LayoutDocuments, variant : {"pdfjs"}]
    \cup [kind : {"line"}, line : LinePool, sensitivity : Sensitivities,
          variant : Variants]
    \cup [kind : {"command"}, args : BatchArgs, finds : BOOLEAN, variant : {"ocr"}]
    \cup [kind : {"block"}, lines : Blocks, variant : Variants]

DetectInit ==
  /\ input \in DetectorInputs
  /\ variant = input.variant
  /\ routes = 1
  /\ processingJobs = <<>>
  /\ extractedTables = <<>>
  /\ originalFiles = <<>>
  /\ excelFiles = {}
  /\ isProcessing = {}
  /\ runs = <<>>
  /\ nextJobId = 1
  /\ nextTableId = 1
  /\ requests = 0
  /\ event = NoEvent
  /\ output = NoOutput

Returned(fn, tables) ==
  /\ output = NoOutput
  /\ output' = [fn |-> fn, tables |-> tables]
  /\ UNCHANGED <<variant, routes, processingJobs, extractedTables, originalFiles,
                 excelFiles, isProcessing, runs, nextJobId, nextTableId, requests,
                 event, input>>

RunDetectTables ==
  /\ input.kind = "text"
  /\ Returned("detectTables",
              detectTables(input.text, input.confidenceThreshold, input.sensitivity,
                           variant))

RunFallback ==
  /\ input.kind = "combined"
  /\ Returned("fallback", <<FallbackTable(input.text)>>)

RunDetectTablesByLayout ==
  /\ input.kind = "document"
  /\ Returned("detectTablesByLayout", detectTablesByLayout(input.doc))

\* one line classified on its own
RunIsTableLine ==
  /\ input.kind = "line"
  /\ output = NoOutput
  /\ output' = [fn |-> "isTableLine", tables |-> <<>>,
                accepted |-> isTableLine(input.line, input.sensitivity)]
  /\ UNCHANGED <<variant, routes, processingJobs, extractedTables, originalFiles,
                 excelFiles, isProcessing, runs, nextJobId, nextTableId, requests,
                 event, input>>

\* npm run batch:flexible with the arguments of input
RunBatchFlexible ==
  /\ input.kind = "command"
  /\ output = NoOutput
  /\ output' = [fn |-> "batchFlexible", tables |-> <<>>,
                scanned |-> batchFlexible(input.args, input.finds).scanned,
                processed |-> batchFlexible(input.args, input.finds).processed]
  /\ UNCHANGED <<variant, routes, processingJobs, extractedTables, originalFiles,
                 excelFiles, isProcessing, runs, nextJobId, nextTableId, requests,
                 event, input>>

\* the separator of one block
RunDetectSeparator ==
  /\ input.kind = "block"
  /\ output = NoOutput
  /\ output' = [fn |-> "detectSeparator", tables |-> <<>>,
                separator |-> detectSeparator(input.lines)]
  /\ UNCHANGED <<variant, routes, processingJobs, extractedTables, originalFiles,
                 excelFiles, isProcessing, runs, nextJobId, nextTableId, requests,
                 event, input>>

DetectNext ==
  \/ RunDetectTables
  \/ RunFallback
  \/ RunDetectTablesByLayout
  \/ RunIsTableLine
  \/ RunBatchFlexible
  \/ RunDetectSeparator

DetectSpec == DetectInit /\ [][DetectNext]_vars

(***************************************************************************)
(* Properties of the detectors (DetectSpec)                                *)
(***************************************************************************)

\* C1: every table returned by the layout detector, by the text-pattern
\* detector or as the single-column fallback has data rows that all hold
\* exactly Len(headers) cells.
C1_RowsMatchHeaders ==
  output # NoOutput =>
    \A t \in 1..Len(output.tables) :
      \A r \in 1..Len(output.tables[t].data) :
        Len(output.tables[t].data[r]) = Len(output.tables[t].headers)

\* a header row of two cells over a row split into three: the row is cut
C1_Witness ==
  /\ output.fn = "detectTables"
  /\ input.text = <<<<"|","A","b","|","C","d","|">>, <<"x","|","1","|","2">>>>
  /\ Len(output.tables) = 1
  /\ output.tables[1].headers = <<<<"A","b">>, <<"C","d">>>>
  /\ output.tables[1].data = <<<<<<"x">>, <<"1">>>>>>

\* C9: the text-pattern detector returns no table whose confidence is below
\* the confidenceThreshold it was called with.
C9_ThresholdRespected ==
  output.fn = "detectTables" =>
    \A t \in 1..Len(output.tables) :
      output.tables[t].confidence >= input.confidenceThreshold

\* of two blocks the first scores below the threshold and is discarded
C9_Witness ==
  /\ output.fn = "detectTables"
  /\ input.text = TwoBlocks
  /\ Len(detectTables(input.text, 0, input.sensitivity, variant)) = 2
  /\ detectTables(input.text, 0, input.sensitivity, variant)[1].confidence
       < input.confidenceThreshold
  /\ Len(output.tables) = 1

\* C10: the i-th table (counting from 0) of the sequence the layout
\* detector or the text-pattern detector returns has tableIndex i.
C10_SequentialIndex ==
  output.fn \in {"detectTables", "detectTablesByLayout"} =>
    \A t \in 1..Len(output.tables) : output.tables[t].tableIndex = t - 1

\* two pages with a table each: the second table has index 1
C10_Witness ==
  /\ output.fn = "detectTablesByLayout"
  /\ Len(input.doc.pages) = 2
  /\ Len(output.tables) = 2
  /\ output.tables[2].tableIndex = 1

\* C11: every table a detector returns or the fallback builds has an
\* integer confidence from 0 to 100, and every table the text-pattern
\* detector returns has a confidence from 30 to 100.
C11_ConfidenceRange ==
  output # NoOutput =>
    \A t \in 1..Len(output.tables) :
      /\ output.tables[t].confidence \in 0..100
      /\ output.fn = "detectTables" => output.tables[t].confidence \in 30..100

\* a block whose boosts add up to more than 100 is returned at 100
C11_Witness ==
  /\ output.fn = "detectTables"
  /\ Len(output.tables) >= 1
  /\ output.tables[1].confidence = 100
  /\ calculateTableConfidenceUnclamped(output.tables[1].headers,
                                       output.tables[1].data, variant) > 100

\* C12: line classification is monotone in sensitivity: a line isTableLine
\* accepts at 'low' it accepts at 'medium', and a line it accepts at
\* 'medium' it accepts at 'high'.
C12_Monotone ==
  (output.fn = "isTableLine" /\ output.accepted) =>
    /\ input.sensitivity = "low" => isTableLine(input.line, "medium")
    /\ input.sensitivity = "medium" => isTableLine(input.line, "high")

\* the pages among the first MaxLayoutPages that are read without error
ReadablePages(pages) ==
  LET Reads(page) == ~page.fails
  IN  SelectSeq(SubSeq(pages, 1, Min(Len(pages), MaxLayoutPages)), Reads)

\* C13: a page that throws while it is read or analysed contributes no
\* table, and detectTablesByLayout still returns the tables of the other
\* pages among the first 10.
C13_PageFailureIsLocal ==
  (output.fn = "detectTablesByLayout" /\ ~input.doc.corrupt) =>
    output.tables = LayoutLoop(ReadablePages(input.doc.pages), 1, <<>>, 0)

\* the number of column bands of a page: 1 + the number of consecutive
\* sorted x positions more than gapThreshold apart
BandCount(page) ==
  LET xs == XPositions(PageRows(NonBlankItems(page.items)))
  IN  1 + Cardinality({i \in 2..Len(xs) : xs[i] - xs[i - 1] > gapThreshold * Unit})

\* C15: a page with fewer than 2 or more than 12 column bands yields no
\* layout table, and every other page yields at most one: the tables
\* returned for a document are no more than its pages, among the first 10,
\* that have from 2 to 12 bands.
C15_BandCount ==
  output.fn = "detectTablesByLayout" =>
    /\ Len(output.tables)
         <= Cardinality({p \in 1..Min(Len(input.doc.pages), MaxLayoutPages) :
                          BandCount(input.doc.pages[p]) \in 2..12})
    /\ (Len(input.doc.pages) = 1 /\ BandCount(input.doc.pages[1]) \notin 2..12)
         => output.tables = <<>>

\* a page of 13 bands, rejected
C15_Witness ==
  /\ output.fn = "detectTablesByLayout"
  /\ Len(input.doc.pages) = 1
  /\ ~input.doc.pages[1].fails
  /\ BandCount(input.doc.pages[1]) = 13
  /\ output.tables = <<>>

\* C18: the text-pattern detectors of the PDFProcessor variants return the
\* same tables, with the same headers, data and confidence, for every text,
\* confidenceThreshold and sensitivity.
C18_SameDetector ==
  output.fn = "detectTables" =>
    \A other \in Variants :
      detectTables(input.text, input.confidenceThreshold, input.sensitivity, other)
        = output.tables

\* the patterns a command line gives: the arguments that are not options
GivenPatterns(args) == {args[i] : i \in {k \in 1..Len(args) : ~StartsWithDash(args[k])}}

\* --pattern is followed by its value
WellFormedArgs(args) ==
  \A i \in 1..Len(args) :
    args[i] = OptPattern => (i < Len(args) /\ ~StartsWithDash(args[i + 1]))

\* C19: the flexible batch command scans, reports and processes with the
\* folder pattern given on its command line, as a positional argument or
\* after --pattern, and with 'sampl*' only when no pattern is given.
C19_PatternUsed ==
  (/\ output.fn = "batchFlexible"
   /\ WellFormedArgs(input.args)
   /\ Cardinality(GivenPatterns(input.args)) <= 1) =>
    LET expected == IF GivenPatterns(input.args) = {} THEN DefaultPattern
                    ELSE CHOOSE given \in GivenPatterns(input.args) : TRUE
    IN  /\ output.scanned = expected
        /\ output.processed \in {<<>>, <<expected>>}

\* the lines at which a maximal run of table-like lines starts
BlockStarts(lines, sensitivity) ==
  {a \in 1..Len(lines) :
     /\ isTableLine(lines[a], sensitivity)
     /\ a = 1 \/ ~isTableLine(lines[a - 1], sensitivity)}

\* the last line of the maximal run that starts at line a
BlockEnd(lines, a, sensitivity) ==
  CHOOSE b \in a..Len(lines) :
    /\ \A k \in a..b : isTableLine(lines[k], sensitivity)
    /\ b = Len(lines) \/ ~isTableLine(lines[b + 1], sensitivity)

\* every maximal run of two lines or more, in order, parsed once as one
\* block; a run of one line is passed over
RECURSIVE TablesOfBlocks(_, _, _, _, _, _)
TablesOfBlocks(lines, starts, found, confidenceThreshold, sensitivity, processor) ==
  IF starts = {} THEN found.tables
  ELSE
    LET a == CHOOSE s \in starts : \A t \in starts : s <= t
        b == BlockEnd(lines, a, sensitivity)
    IN  TablesOfBlocks(lines, starts \ {a},
          IF b > a
            THEN PushTable(found,
                           parseTable(SubSeq(lines, a, b), found.tableIndex,
                                      confidenceThreshold, processor),
                           confidenceThreshold)
            ELSE found,
          confidenceThreshold, sensitivity, processor)

\* C20: the text-pattern detector parses every maximal run of two or more
\* consecutive table-like lines, among the non-blank trimmed lines, exactly
\* once, as one block of exactly the lines of the run in order; a run of
\* one line gives no table and no line goes into two tables.
C20_BlocksAreMaximalRuns ==
  output.fn = "detectTables" =>
    output.tables =
      TablesOfBlocks(NonBlankLines(input.text),
                     BlockStarts(NonBlankLines(input.text), input.sensitivity),
                     [tables |-> <<>>, tableIndex |-> 0],
                     input.confidenceThreshold, input.sensitivity, variant)

\* two runs of two lines around a line of prose: two tables, one data row
\* under the header row of the first, and the two rows of the second
C20_Witness ==
  /\ output.fn = "detectTables"
  /\ input.text = TwoBlocks
  /\ Cardinality(BlockStarts(NonBlankLines(input.text), input.sensitivity)) = 2
  /\ Len(output.tables) = 2
  /\ Len(output.tables[1].data) = 1
  /\ Len(output.tables[2].data) = 2

\* the matches of a separator in a line: the occurrences of the character,
\* or the maximal runs of two or more whitespace characters
MatchesIn(line, sep) ==
  IF sep = " "
    THEN Cardinality({i \in 1..Len(line) :
                        /\ RunAt(line, i, 2)
                        /\ i = 1 \/ line[i - 1] \notin WhiteSpace})
    ELSE CountIn(line, {sep})

RECURSIVE TotalMatches(_, _)
TotalMatches(lines, sep) ==
  IF lines = <<>> THEN 0
  ELSE MatchesIn(Head(lines), sep) + TotalMatches(Tail(lines), sep)

\* C21: detectSeparator returns the separator, among pipe, tab and
\* space-run, with the highest total number of matches over the lines of
\* the block; a tie goes to the first in the order pipe, tab, space-run.
C21_BestSeparator ==
  output.fn = "detectSeparator" =>
    LET order == <<"|", TAB, " ">>
        rank == CHOOSE r \in 1..3 : order[r] = output.separator
    IN  /\ \A r \in 1..3 :
             TotalMatches(input.lines, order[r])
               <= TotalMatches(input.lines, output.separator)
        /\ \A r \in 1..(rank - 1) :
             TotalMatches(input.lines, order[r])
               < TotalMatches(input.lines, output.separator)

\* C22: any two tokens of a page whose y values differ by no more than the
\* vertical tolerance of 3 are put in the same row by the clustering of the
\* layout detector.
C22_CloseTokensShareRow ==
  (output.fn = "detectTablesByLayout" /\ ~input.doc.corrupt) =>
    \A p \in 1..Min(Len(input.doc.pages), MaxLayoutPages) :
      \A i, j \in 1..Len(NonBlankItems(input.doc.pages[p].items)) :
        Abs(Round2(NonBlankItems(input.doc.pages[p].items)[i].y)
              - Round2(NonBlankItems(input.doc.pages[p].items)[j].y))
            <= yTolerance * Unit
          => \E r \in 1..Len(PageRows(NonBlankItems(input.doc.pages[p].items))) :
               {NonBlankItems(input.doc.pages[p].items)[i],
                NonBlankItems(input.doc.pages[p].items)[j]}
                 \subseteq
                   {PageRows(NonBlankItems(input.doc.pages[p].items))[r].items[k] :
                      k \in 1..Len(PageRows(NonBlankItems(input.doc.pages[p].items))[r].items)}

\* the bands that hold the position x
BandsOf(columns, x) ==
  {c \in 1..Len(columns) : x >= columns[c].minX /\ x < columns[c].maxX}

\* the bands are contiguous and do not overlap, every item lies in exactly
\* one band and is put in the cell of that band, and an item at a cut is put
\* in the band that starts there
BandsPartition(items, columns) ==
  /\ \A c \in 1..Len(columns) : columns[c].minX < columns[c].maxX
  /\ \A c \in 1..(Len(columns) - 1) : columns[c].maxX = columns[c + 1].minX
  /\ \A i \in 1..Len(items) :
       /\ BandsOf(columns, items[i].x) = {ColumnIndex(columns, items[i].x)}
       /\ \A c \in 2..Len(columns) :
            items[i].x = columns[c].minX => ColumnIndex(columns, items[i].x) = c

\* C23: on every page that is not rejected the column bands [minX, maxX)
\* are contiguous, do not overlap and cover the x of every token: each
\* token lies in exactly one band, whose cell receives its text, and a
\* token at a cut position goes to the band that starts at the cut.
C23_BandsPartition ==
  (output.fn = "detectTablesByLayout" /\ ~input.doc.corrupt) =>
    \A p \in 1..Min(Len(input.doc.pages), MaxLayoutPages) :
      BandCount(input.doc.pages[p]) \in MinColumns..MaxColumns =>
        BandsPartition(NonBlankItems(input.doc.pages[p].items),
                       Columns(XPositions(PageRows(
                         NonBlankItems(input.doc.pages[p].items)))))

\* the lines of a block that split into two cells or more at the block's
\* separator
CellRows(lines) ==
  Cardinality({i \in 1..Len(lines) :
                 Len(splitTableLine(lines[i], detectSeparator(lines))) >= 2})

\* the rows a table took from the lines of its block: its data rows, and
\* its header row unless the headers are the generated 'Column n'
RowsTaken(table) ==
  Len(table.data) + (IF table.headers[1] = ColumnName(1) THEN 0 ELSE 1)

\* the text is one block: two or more non-blank lines, all table-like
OneBlockText(text, sensitivity) ==
  /\ Len(NonBlankLines(text)) >= 2
  /\ \A i \in 1..Len(NonBlankLines(text)) :
       isTableLine(NonBlankLines(text)[i], sensitivity)

\* C24: every table the text-pattern detector returns has at least 2 header
\* columns and at least 1 data row; the lines of a block that split into
\* fewer than 2 cells are dropped, so a block gives as many rows as it has
\* lines of 2 cells or more, and no table when fewer than 2 such lines remain.
C24_TwoColumnsOneRow ==
  output.fn = "detectTables" =>
    /\ \A t \in 1..Len(output.tables) :
         /\ Len(output.tables[t].headers) >= 2
         /\ Len(output.tables[t].data) >= 1
    /\ OneBlockText(input.text, input.sensitivity) =>
         /\ CellRows(NonBlankLines(input.text)) < 2 => output.tables = <<>>
         /\ \A t \in 1..Len(output.tables) :
              RowsTaken(output.tables[t]) = CellRows(NonBlankLines(input.text))

\* a block of three lines whose middle line '|7|' has one cell: the table
\* has the two other lines only
C24_Witness ==
  /\ output.fn = "detectTables"
  /\ input.text = <<<<"x","|","1","|","2">>, <<"|","7","|">>, <<"x","|","1","|","2">>>>
  /\ OneBlockText(input.text, input.sensitivity)
  /\ Len(output.tables) = 1
  /\ RowsTaken(output.tables[1]) = 2

\* C29: every table the layout detector returns has confidence 80 or 90:
\* every data row has as many cells as there are headers, so the bonus of
\* 20 for consistent columns always applies and no layout table scores 60
\* or 70.
C29_LayoutConfidence ==
  output.fn = "detectTablesByLayout" =>
    \A t \in 1..Len(output.tables) :
      /\ \A r \in 1..Len(output.tables[t].data) :
           Len(output.tables[t].data[r]) = Len(output.tables[t].headers)
      /\ output.tables[t].confidence \in {80, 90}

\* a document of two pages whose tables score 80 and 90
C29_Witness ==
  /\ output.fn = "detectTablesByLayout"
  /\ \E t, u \in 1..Len(output.tables) :
       /\ output.tables[t].confidence = 80
       /\ output.tables[u].confidence = 90
       /\ output.tables[u].data # <<>>

\* C30: every block the text-pattern detector scores gets at least 45
\* before the clamp: it has 2 headers or more, rows of the headers' length
\* and a non-empty first cell in every row.  The lower clamp therefore
\* never changes a score, and a confidenceThreshold of 45 or less discards
\* no block.  At threshold 0 every scored block is returned.
C30_ScoreAtLeast45 ==
  (output.fn = "detectTables" /\ input.confidenceThreshold = 0) =>
    /\ \A t \in 1..Len(output.tables) :
         LET table == output.tables[t]
             raw == calculateTableConfidenceUnclamped(table.headers, table.data,
                                                      variant)
         IN  /\ Len(table.headers) >= 2
             /\ \A r \in 1..Len(table.data) :
                  /\ Len(table.data[r]) = Len(table.headers)
                  /\ Trim(table.data[r][1]) # <<>>
             /\ raw >= 45
             /\ table.confidence = Min(100, raw)
    /\ output.tables = detectTables(input.text, 45, input.sensitivity, variant)

\* a block of a wide header over a row of two cells, without numbers: it
\* scores 48
C30_Witness ==
  /\ output.fn = "detectTables"
  /\ input.confidenceThreshold = 0
  /\ \E t \in 1..Len(output.tables) :
       /\ output.tables[t].confidence = 48
       /\ \E r \in 1..Len(output.tables[t].data) :
            \E c \in 1..Len(output.tables[t].data[r]) :
              output.tables[t].data[r][c] = <<>>

(***************************************************************************)
(* Properties of processJob and of the routes                              *)
(***************************************************************************)

\* the tables the run that has just completed stored, in the order of
\* their ids
StoredTables ==
  [k \in 1..(nextTableId - event.firstId) |->
     LET table == extractedTables[event.firstId + k - 1]
     IN  [tableIndex |-> table.tableIndex, headers |-> table.headers,
          data |-> table.data, confidence |-> table.confidence,
          boundingBox |-> table.boundingBox]]

\* C2: when processJob sets a job whose combined text is not empty to
\* 'completed', at least one extracted table is stored for the job.
C2_NeverCompletesEmpty ==
  (event.op = "completed" /\ event.combinedText # EmptyText) =>
    TableIdsOf(extractedTables, event.jobId) # {}

\* the positions of the lines of a text that are not blank
NonBlankPositions(text) == {i \in 1..Len(text) : Trim(text[i]) # <<>>}

\* C3: when the layout detector and the text-pattern detector both return
\* no table, processJob stores exactly one table: tableIndex 0, headers
\* ["Text"], one single-cell row per non-blank trimmed line of the
\* combined text in line order, confidence 80 and a boundingBox of height
\* max(20, 20 x number of lines).
C3_FallbackShape ==
  (event.op = "completed" /\ event.layoutRan /\ event.layout = <<>>
     /\ event.textRan /\ event.text = <<>>) =>
    LET kept == NonBlankPositions(event.combinedText)
    IN  /\ Len(StoredTables) = 1
        /\ extractedTables[event.firstId].jobId = event.jobId
        /\ StoredTables[1].tableIndex = 0
        /\ StoredTables[1].headers = <<<<"T", "e", "x", "t">>>>
        /\ Len(StoredTables[1].data) = Cardinality(kept)
        /\ \A i \in kept :
             StoredTables[1].data[Cardinality({m \in kept : m <= i})]
               = <<Trim(event.combinedText[i])>>
        /\ StoredTables[1].confidence = 80
        /\ StoredTables[1].boundingBox.height
             = IF 20 * Cardinality(kept) > 20 THEN 20 * Cardinality(kept) ELSE 20

\* a page of prose: no layout table, no text table, a fallback table of two
\* rows or more
C3_Witness ==
  /\ event.op = "completed"
  /\ event.layoutRan /\ event.layout = <<>>
  /\ event.textRan /\ event.text = <<>>
  /\ Len(StoredTables) = 1
  /\ Len(StoredTables[1].data) >= 2

\* C4: the tables a processJob run stores come from one source: the layout
\* tables, unchanged and without a run of the text-pattern detector, if
\* there is one; the tables of the text-pattern detector, which runs only
\* when there is no layout table; the fallback table only when both
\* detectors returned none.
C4_OneSource ==
  event.op = "completed" =>
    /\ event.layout # <<>> => (StoredTables = event.layout /\ ~event.textRan)
    /\ event.textRan => event.layout = <<>>
    /\ (event.layout = <<>> /\ event.text # <<>>) => StoredTables = event.text
    /\ StoredTables \notin {event.layout, event.text} =>
         (event.layout = <<>> /\ event.text = <<>>)

\* a run that found no layout table and stored the tables of the
\* text-pattern detector
C4_Witness ==
  /\ event.op = "completed"
  /\ event.layoutRan /\ event.layout = <<>>
  /\ event.textRan /\ event.text # <<>>
  /\ StoredTables = event.text

\* C5: no two processJob calls for one job are in flight, and a call made
\* for a job while another call for it is in flight is rejected with 'Job
\* is already being processed' and changes neither the jobs nor the stored
\* tables.
C5_OneRunPerJob ==
  /\ \A i, k \in 1..Len(runs) : i # k => runs[i].jobId # runs[k].jobId
  /\ (event.op = "processJob" /\ event.inFlight) =>
       /\ event.promise = "rejected"
       /\ event.error = "Job is already being processed"
       /\ processingJobs = event.jobs
       /\ extractedTables = event.tables

\* a call for a job that has a call in flight
C5_Witness ==
  /\ event.op = "processJob"
  /\ event.inFlight
  /\ event.promise = "rejected"
  /\ \E i \in 1..Len(runs) : runs[i].jobId = event.jobId

\* C6: a job that has a run in flight is never set to 'pending', and no job
\* goes from 'pending' to 'completed' in one move.
C6_StatusMoves ==
  [][\A jobId \in DOMAIN processingJobs \cap DOMAIN processingJobs' :
       /\ (processingJobs'[jobId].status = "pending"
             /\ \E i \in 1..Len(runs) : runs[i].jobId = jobId)
            => processingJobs[jobId].status = "pending"
       /\ ~(processingJobs[jobId].status = "pending"
              /\ processingJobs'[jobId].status = "completed")]_vars

C8_UniqueTableIndex ==
  \A t, u \in DOMAIN extractedTables :
    (t # u /\ extractedTables[t].jobId = extractedTables[u].jobId)
      => extractedTables[t].tableIndex # extractedTables[u].tableIndex

\* a text with a non-blank line of the report generateSimulatedOCRText
\* returns; no document of the model has such a line
HasSimulatedLine(text) ==
  \E k \in 1..Len(text) :
    /\ Trim(text[k]) # <<>>
    /\ \E m \in 1..Len(SimulatedOCRText) : text[k] = SimulatedOCRText[m]

\* C14: performOCR never throws and returns the empty string when OCR fails
\* or recognises nothing: no job fails because of OCR, and the combined text
\* of a run holds nothing that is not text of the document.
C14_OcrFailsQuietly ==
  /\ event.op = "failed" => event.message # "OCR worker error"
  /\ event.op = "completed" => ~HasSimulatedLine(event.combinedText)
  /\ \A i \in 1..Len(runs) : ~HasSimulatedLine(runs[i].combinedText)

JobOperations ==
  {"uploaded", "processJob", "progress", "completed", "failed", "reset",
   "deleted", "fileDeleted"}

CallerOptions ==
  [ocrLanguage : {<<>>},
   confidenceThreshold : {<<>>, <<0>>, <<95>>},
   tableDetectionSensitivity : {<<>>}]

OptionsDocuments == {TableDocument, LowScoreDocument}

OptionsNext ==
  \/ \E doc \in OptionsDocuments : Upload(doc)
  \/ \E jobId \in JobIds, options \in CallerOptions : CallProcessJob(jobId, options)
  \/ Background

OptionsSpec == Init /\ [][OptionsNext]_vars

\* the threshold the caller asked for: the option's value, 70 without one
RequestedThreshold(options) ==
  IF options.confidenceThreshold = <<>> THEN DefaultThreshold
  ELSE options.confidenceThreshold[1]

\* C25: when a run of processJob runs the text-pattern detector, the tables
\* it gets are those of detectTables at the caller's confidenceThreshold,
\* whatever its value in [0,100], and at 70 only without the option; with
\* confidenceThreshold = 0 no block is discarded for its confidence.
C25_CallerThreshold ==
  (event.op = "completed" /\ event.textRan) =>
    event.text = detectTables(event.combinedText,
                              RequestedThreshold(event.options),
                              SensitivityOf(event.options), variant)

\* C26: a job is 'completed' with exactly the tables of the run that
\* completed it: when a run sets the job to 'completed' the tables stored
\* for the job are the tables that run saved and no other, and no table of
\* the job is added or removed while the job stays 'completed'.
C26_CompletedHoldsItsRun ==
  [][/\ event'.op = "completed" =>
          TableIdsOf(extractedTables', event'.jobId)
            = event'.firstId..(nextTableId' - 1)
     /\ \A jobId \in DOMAIN processingJobs \cap DOMAIN processingJobs' :
          (processingJobs[jobId].status = "completed"
             /\ processingJobs'[jobId].status = "completed") =>
            /\ TableIdsOf(extractedTables', jobId) = TableIdsOf(extractedTables, jobId)
            /\ \A t \in TableIdsOf(extractedTables, jobId) :
                 extractedTables'[t] = extractedTables[t]
    ]_vars

\* C27: after deleteProcessingJob(id) storage never again holds an extracted
\* table, an original file or a cached Excel file of id, also when a run of
\* processJob for id was in flight at the deletion.  Ids are not used
\* again: a job id that was given out and has no record is a deleted one.
C27_DeletedLeavesNothing ==
  \A jobId \in JobIds \ DOMAIN processingJobs :
    /\ TableIdsOf(extractedTables, jobId) = {}
    /\ jobId \notin DOMAIN originalFiles
    /\ {key \in excelFiles : key[1] = jobId} = {}

(***************************************************************************)
(* The routes and the runs of processJob when every await of a text source *)
(* returns or throws: a run that waits for its text extraction, its OCR or *)
(* its layout detection is resumed by the event loop.                      *)
(***************************************************************************)

\* the next step of the run of processJob for a job
RunStepOf(jobId) ==
  \E i \in 1..Len(runs) :
    /\ runs[i].jobId = jobId
    /\ \/ ExtractDone(i)
       \/ \E outcome \in OcrOutcomes : OcrDone(i, outcome)
       \/ LayoutDone(i)

\* the steps of RunStepOf told by what they do to runs: the run of the job
\* ends, or it goes on to its next await.  No request does either.
Resumed(jobId) ==
  \E i \in 1..Len(runs) :
    /\ runs[i].jobId = jobId
    /\ \/ runs' = RemoveAt(runs, i)
       \/ /\ Len(runs') = Len(runs)
          /\ runs'[i].pc # runs[i].pc

\* Resumed(jobId) and RunStepOf(jobId) are the same steps
ResumedIsRunStep ==
  [][\A jobId \in 1..MaxJobs : Resumed(jobId) <=> RunStepOf(jobId)]_vars

FairSpec == Init /\ [][Next]_vars /\ \A jobId \in 1..MaxJobs : WF_runs(Resumed(jobId))

\* a call of processJob for a job without a run in flight is not rejected
AcceptedWhenIdle ==
  [](event.op = "processJob" /\ ~event.inFlight => event.promise # "rejected")

\* every job in isProcessing leaves it
RunsEnd == \A jobId \in 1..MaxJobs : (jobId \in isProcessing) ~> (jobId \notin isProcessing)

====
